---- MODULE Spec2Model ----
(***************************************************************************)
(* A model of the Mythic skill-line language server core: the position     *)
(* model (src/utilities/positions_and_ranges.rs) and the recursive-descent *)
(* parser (src/mythic_parser/parser.rs) over the token and AST types of    *)
(* lexer.rs and expressions.rs; the scanner (src/mythic_parser/lexer.rs),   *)
(* the range operations of positions_and_ranges.rs and the diagnostic      *)
(* conversion of src/errors/error_registry.rs.                             *)
(*                                                                         *)
(* u32 values are kept in two's-complement form: a value v >= 2^31 is      *)
(* represented by v - 2^32, so that 0 - 1 is -1, which stands for          *)
(* 2^32 - 1.  Comparisons go through U32Lt, which orders the               *)
(* representatives as the unsigned values they stand for.                  *)
(***************************************************************************)
EXTENDS Integers, Sequences, FiniteSets, TLC

\* ---------------------------------------------------------------- bounds
\* longest source string of the position model
MaxSrcLen == 3
\* offsets tried beyond the end of the source
MaxPast == 1

VARIABLES
    overflow_checks,   \* build profile: TRUE = debug (arithmetic overflow panics), FALSE = release (wraps)
    pm_source,         \* position model: the source string, a sequence of characters
    pm_offset,         \* position model: the offset handed to from_offset
    pm_pos,            \* result of from_offset(pm_offset, pm_source)
    pm_back,           \* result of to_offset(pm_pos, pm_source)
    pm_again,          \* result of from_offset(pm_back, pm_source)
    pm_pc,             \* "start", "converted", "back", "done" or "panic"; "idle" outside the position model
    tokens,            \* Parser.tokens
    source,            \* the source string every token carries
    current,           \* Parser.current, 0-based
    stack,             \* the call stack of the parser: one frame per active function, the last is running
    result,            \* what parse returned: None while it runs, then Ok, Err or Panic
    lx_source,         \* MythicScanner.source, a sequence of characters
    lx_tokens,         \* MythicScanner.tokens
    lx_start,          \* MythicScanner.start
    lx_current,        \* MythicScanner.current
    lx_line,           \* MythicScanner.line
    lx_c,              \* the character scan_token read, None before the first
    lx_pc,             \* the scanner function running; "done" after scan_tokens returned, "idle" outside the scanner
    lx_result,         \* what scan_tokens returned: None while it runs, then Ok, Err or Panic
    rg_source,         \* range operations: the source string handed to length
    rg_range,          \* range operations: the CustomRange operated on
    rg_position,       \* range operations: the position handed to contains
    rg_contains,       \* result of rg_range.contains(rg_position), None before the call
    rg_length,         \* result of rg_range.length(rg_source), None before the call
    dg_error,          \* diagnostic conversion: the Error converted
    dg_diagnostic,     \* result of dg_error.to_diagnostic(), None before the call
    cc_mode,           \* two runs: "scan" or "parse", what the two instances are; "idle" outside
    cc_phase,          \* two runs: "alone" while each runs by itself, then "both"; "idle" outside
    cc_active,         \* two runs: the instance, 1 or 2, whose fields the lx_ or parser variables hold
    cc_other,          \* two runs: the fields of the instance that is not running, None before there is one
    cc_inputs,         \* two runs: the two inputs
    cc_alone,          \* two runs: what each instance returned when it ran by itself
    sk_phase,          \* two skips: the routine that runs, "generic_string" or "mlc_value", then "done"; "idle" outside
    sk_outcomes        \* two skips: where each routine that has run left the cursor

lxvars == <<lx_source, lx_tokens, lx_start, lx_current, lx_line, lx_c, lx_pc, lx_result>>
rgvars == <<rg_source, rg_range, rg_position, rg_contains, rg_length>>
dgvars == <<dg_error, dg_diagnostic>>
pmvars == <<pm_source, pm_offset, pm_pos, pm_back, pm_again, pm_pc>>
pvars == <<tokens, source, current, stack, result>>
ccvars == <<cc_mode, cc_phase, cc_active, cc_other, cc_inputs, cc_alone>>
skvars == <<sk_phase, sk_outcomes>>

\* ------------------------------------------------------------ characters
NL == "\n"
CR == "\r"
Chars == {"a", NL, CR}

None == [tag |-> "None"]
Some(v) == [tag |-> "Some", v |-> v]

\* ------------------------------------------------------- u32 arithmetic
\* unsigned a < b on two's-complement representatives
U32Lt(a, b) == IF (a >= 0) = (b >= 0) THEN a < b ELSE a >= 0

\* a - b underflows in u32
SubOverflows(a, b) == U32Lt(a, b)

\* a + b overflows in u32
AddOverflows(a, b) == U32Lt(a + b, a)

\* ------------------------------------------------------------ str::lines
\* index of the first NL of s at or after position i, or Len(s) + 1
RECURSIVE NextNL(_, _)
NextNL(s, i) ==
    IF i > Len(s) THEN Len(s) + 1
    ELSE IF s[i] = NL THEN i
    ELSE NextNL(s, i + 1)

\* a line that was terminated by NL loses one trailing CR
StripCR(l) == IF Len(l) > 0 /\ l[Len(l)] = CR THEN SubSeq(l, 1, Len(l) - 1) ELSE l

\* the lines of s from position i on: split after every NL, the final
\* line needs no terminator and an empty final piece is no line
RECURSIVE LinesFrom(_, _)
LinesFrom(s, i) ==
    IF i > Len(s) THEN << >>
    ELSE LET n == NextNL(s, i) IN
         IF n > Len(s) THEN << SubSeq(s, i, Len(s)) >>
         ELSE << StripCR(SubSeq(s, i, n - 1)) >> \o LinesFrom(s, n + 1)

Lines(s) == LinesFrom(s, 1)

\* ------------------------------------------------------- CustomPosition
CustomPosition(line, character) == [line |-> line, character |-> character]

PosPanic == [panic |-> TRUE]
PosOk(p) == [panic |-> FALSE, pos |-> p]

\* the for loop of from_offset, entered at line index i (0-based)
RECURSIVE from_offset_loop(_, _, _, _, _)
from_offset_loop(lines, i, offset, line, character) ==
    IF i >= Len(lines) THEN PosOk(CustomPosition(line, character))
    ELSE LET n == Len(lines[i + 1]) IN
         IF U32Lt(offset, n) THEN PosOk(CustomPosition(i, offset))
         ELSE IF overflow_checks /\ SubOverflows(offset, n + 1) THEN PosPanic
         ELSE from_offset_loop(lines, i + 1, offset - (n + 1), i + 1, offset - (n + 1))

from_offset(offset, src) ==
    IF offset = 0 THEN PosOk(CustomPosition(0, 0))
    ELSE from_offset_loop(Lines(src), 0, offset, 0, 0)

OffPanic == [panic |-> TRUE]
OffOk(o) == [panic |-> FALSE, off |-> o]

\* the for loop of to_offset, entered at line index i (0-based)
RECURSIVE to_offset_loop(_, _, _, _)
to_offset_loop(lines, i, pos, offset) ==
    IF i >= Len(lines) THEN OffOk(offset)
    ELSE IF i = pos.line THEN
         IF overflow_checks /\ AddOverflows(offset, pos.character) THEN OffPanic
         ELSE OffOk(offset + pos.character)
    ELSE to_offset_loop(lines, i + 1, pos, offset + Len(lines[i + 1]) + 1)

to_offset(pos, src) == to_offset_loop(Lines(src), 0, pos, 0)

\* -------------------------------------------------------------- tokens
TokenType ==
    { "LeftSquareBracket", "RightSquareBracket", "LeftBrace", "RightBrace",
      "Semicolon", "Equal", "Dash", "At", "Tilde", "Question", "Exclamation",
      "Colon", "LessThan", "GreaterThan", "Dot", "Percent", "Identifier",
      "String", "Number", "Space", "Eof" }

\* the characters the scanner turns into one token of the type: the
\* single structural character, or a shortest identifier, number, string
LexemeOf(type_) ==
    CASE type_ = "LeftSquareBracket"  -> << "[" >>
      [] type_ = "RightSquareBracket" -> << "]" >>
      [] type_ = "LeftBrace"          -> << "{" >>
      [] type_ = "RightBrace"         -> << "}" >>
      [] type_ = "Semicolon"          -> << ";" >>
      [] type_ = "Equal"              -> << "=" >>
      [] type_ = "Dash"               -> << "-" >>
      [] type_ = "At"                 -> << "@" >>
      [] type_ = "Tilde"              -> << "~" >>
      [] type_ = "Question"           -> << "?" >>
      [] type_ = "Exclamation"        -> << "!" >>
      [] type_ = "Colon"              -> << ":" >>
      [] type_ = "LessThan"           -> << "<" >>
      [] type_ = "GreaterThan"        -> << ">" >>
      [] type_ = "Dot"                -> << "." >>
      [] type_ = "Percent"            -> << "%" >>
      [] type_ = "Space"              -> << " " >>
      [] type_ = "Identifier"         -> << "a" >>
      [] type_ = "Number"             -> << "1" >>
      [] type_ = "String"             -> << "'", "'" >>

MythicToken(type_, lexeme, start, current_) ==
    [type_ |-> type_, lexeme |-> lexeme, start |-> start, current |-> current_]

\* the tokens add_token pushes for a run of lexemes that starts at offset at
RECURSIVE TokensAt(_, _)
TokensAt(types, at) ==
    IF types = << >> THEN << >>
    ELSE LET lx == LexemeOf(Head(types)) IN
         << MythicToken(Head(types), Some(lx), at, at + Len(lx)) >>
            \o TokensAt(Tail(types), at + Len(lx))

\* the token sequence of a scan: the tokens of the lexemes, then the Eof
\* token scan_tokens pushes with the start of the last token scanned
ScanOf(types) ==
    LET toks == TokensAt(types, 0)
        n == Len(toks)
    IN  toks \o << MythicToken("Eof", None,
                               IF n = 0 THEN 0 ELSE toks[n].start,
                               IF n = 0 THEN 0 ELSE toks[n].current) >>

RECURSIVE SourceOf(_)
SourceOf(types) ==
    IF types = << >> THEN << >> ELSE LexemeOf(Head(types)) \o SourceOf(Tail(types))

\* ---------------------------------------------------------- CustomRange
CustomRange(start, end) == [start |-> start, end |-> end]

RangePanic == [panic |-> TRUE]
RangeOk(r) == [panic |-> FALSE, range |-> r]

\* MythicToken::get_range over the token's source
TokenGetRange(tok, src) ==
    LET s == from_offset(tok.start, src)
        e == from_offset(tok.current, src)
    IN  IF s.panic \/ e.panic THEN RangePanic
        ELSE RangeOk(CustomRange(s.pos, e.pos))

\* ------------------------------------------- position model, as a machine
RECURSIVE SeqsOfLen(_, _)
SeqsOfLen(S, n) ==
    IF n = 0 THEN { << >> }
    ELSE { Append(s, x) : s \in SeqsOfLen(S, n - 1), x \in S }

SeqsUpTo(S, n) == UNION { SeqsOfLen(S, k) : k \in 0..n }

Sources == SeqsUpTo(Chars, MaxSrcLen)

\* the position model is not running
PosIdle ==
    /\ pm_source = << >>
    /\ pm_offset = 0
    /\ pm_pos = None
    /\ pm_back = None
    /\ pm_again = None
    /\ pm_pc = "idle"

\* the scanner is not running
LexIdle ==
    /\ lx_source = << >>
    /\ lx_tokens = << >>
    /\ lx_start = 0
    /\ lx_current = 0
    /\ lx_line = 1
    /\ lx_c = None
    /\ lx_pc = "idle"
    /\ lx_result = None

\* no two runs are under way
ConcIdle ==
    /\ cc_mode = "idle"
    /\ cc_phase = "idle"
    /\ cc_active = 1
    /\ cc_other = None
    /\ cc_inputs = << >>
    /\ cc_alone = << >>

\* no two skips are under way
SkipIdle ==
    /\ sk_phase = "idle"
    /\ sk_outcomes = << >>

\* no range operation is under way
RangeIdle ==
    /\ rg_source = << >>
    /\ rg_range = None
    /\ rg_position = None
    /\ rg_contains = None
    /\ rg_length = None

\* no diagnostic conversion is under way
DiagIdle ==
    /\ dg_error = None
    /\ dg_diagnostic = None

PosInit ==
    /\ overflow_checks \in BOOLEAN
    /\ pm_source \in Sources
    /\ pm_offset \in 0..(Len(pm_source) + MaxPast)
    /\ pm_pos = None
    /\ pm_back = None
    /\ pm_again = None
    /\ pm_pc = "start"
    /\ tokens = << >>
    /\ source = << >>
    /\ current = 0
    /\ stack = << >>
    /\ result = [tag |-> "Idle"]
    /\ LexIdle
    /\ RangeIdle
    /\ DiagIdle
    /\ ConcIdle
    /\ SkipIdle

\* CustomPosition::from_offset(pm_offset, pm_source)
PosFromOffset ==
    /\ pm_pc = "start"
    /\ LET r == from_offset(pm_offset, pm_source) IN
       /\ pm_pos' = r
       /\ pm_pc' = IF r.panic THEN "panic" ELSE "converted"
    /\ UNCHANGED <<overflow_checks, pm_source, pm_offset, pm_back, pm_again, pvars, lxvars, rgvars, dgvars, ccvars, skvars>>

\* pm_pos.to_offset(pm_source)
PosToOffset ==
    /\ pm_pc = "converted"
    /\ LET r == to_offset(pm_pos.pos, pm_source) IN
       /\ pm_back' = r
       /\ pm_pc' = IF r.panic THEN "panic" ELSE "back"
    /\ UNCHANGED <<overflow_checks, pm_source, pm_offset, pm_pos, pm_again, pvars, lxvars, rgvars, dgvars, ccvars, skvars>>

\* CustomPosition::from_offset(pm_back, pm_source)
PosFromOffsetAgain ==
    /\ pm_pc = "back"
    /\ LET r == from_offset(pm_back.off, pm_source) IN
       /\ pm_again' = r
       /\ pm_pc' = IF r.panic THEN "panic" ELSE "done"
    /\ UNCHANGED <<overflow_checks, pm_source, pm_offset, pm_pos, pm_back, pvars, lxvars, rgvars, dgvars, ccvars, skvars>>

PosNext == PosFromOffset \/ PosToOffset \/ PosFromOffsetAgain

PosSpec ==
    PosInit /\ [][PosNext]_<<overflow_checks, pm_source, pm_offset, pm_pos, pm_back,
                             pm_again, pm_pc, tokens, source, current, stack, result,
                             lxvars, rgvars, dgvars, ccvars, skvars>>


\* ====================================================== range operations
\* CustomPosition::compare: lines first, then characters, as u32
compare(a, b) ==
    IF U32Lt(a.line, b.line) THEN "Less"
    ELSE IF U32Lt(b.line, a.line) THEN "Greater"
    ELSE IF U32Lt(a.character, b.character) THEN "Less"
    ELSE IF U32Lt(b.character, a.character) THEN "Greater"
    ELSE "Equal"

\* a variant of contains that admits the start of the range
contains_from_start(range, position) ==
    /\ compare(range.start, position) # "Greater"
    /\ compare(range.end, position) = "Greater"

\* CustomRange::contains
contains(range, position) ==
    /\ compare(range.start, position) = "Less"
    /\ compare(range.end, position) = "Greater"

\* a variant of length without the guard against start > end
length_unguarded(range, src) ==
    LET e == to_offset(range.end, src)
        s == to_offset(range.start, src)
    IN  IF e.panic \/ s.panic THEN OffPanic
        ELSE IF overflow_checks /\ SubOverflows(e.off, s.off) THEN OffPanic
        ELSE OffOk(e.off - s.off)

\* CustomRange::length
length(range, src) ==
    IF compare(range.start, range.end) = "Greater" THEN OffOk(1)
    ELSE LET e == to_offset(range.end, src)
             s == to_offset(range.start, src)
         IN  IF e.panic \/ s.panic THEN OffPanic
             ELSE IF overflow_checks /\ SubOverflows(e.off, s.off) THEN OffPanic
             ELSE OffOk(e.off - s.off)

\* the positions inside the text of src: a line of it, and a character of
\* that line or its end
PositionsIn(src) ==
    { p \in [line : 0..MaxSrcLen, character : 0..MaxSrcLen] :
        p.line < Len(Lines(src)) /\ p.character <= Len(Lines(src)[p.line + 1]) }

\* the positions from_offset makes of the offsets of src
PositionsFromOffset(src) ==
    { from_offset(o, src).pos :
        o \in { o \in 0..(Len(src) + MaxPast) : ~from_offset(o, src).panic } }

\* the positions of src a range is made of
PositionsOf(src) == PositionsIn(src) \cup PositionsFromOffset(src)

\* CustomRange::new over two positions of a source, and a position of it
RangeInit ==
    /\ overflow_checks \in BOOLEAN
    /\ rg_source \in Sources
    /\ rg_range \in { CustomRange(a, b) : a \in PositionsOf(rg_source), b \in PositionsOf(rg_source) }
    /\ rg_position \in PositionsOf(rg_source)
    /\ rg_contains = None
    /\ rg_length = None
    /\ PosIdle
    /\ tokens = << >>
    /\ source = << >>
    /\ current = 0
    /\ stack = << >>
    /\ result = [tag |-> "Idle"]
    /\ LexIdle
    /\ DiagIdle
    /\ ConcIdle
    /\ SkipIdle

\* rg_range.contains(&rg_position)
RangeContains ==
    /\ rg_range # None
    /\ rg_contains = None
    /\ rg_contains' = Some(contains(rg_range, rg_position))
    /\ UNCHANGED <<overflow_checks, rg_source, rg_range, rg_position, rg_length,
                   pmvars, pvars, lxvars, dgvars, ccvars, skvars>>

\* rg_range.length(&rg_source)
RangeLength ==
    /\ rg_range # None
    /\ rg_length = None
    /\ rg_length' = Some(length(rg_range, rg_source))
    /\ UNCHANGED <<overflow_checks, rg_source, rg_range, rg_position, rg_contains,
                   pmvars, pvars, lxvars, dgvars, ccvars, skvars>>

RangeNext == RangeContains \/ RangeLength

RangeSpec ==
    RangeInit /\ [][RangeNext]_<<overflow_checks, pmvars, pvars, lxvars, rgvars, dgvars, ccvars, skvars>>

\* largest line and character of the positions that need not lie in the
\* source
MaxAnyCoord == 3

\* CustomRange::new over any two positions, in the source or not
AnyRangeInit ==
    /\ overflow_checks \in BOOLEAN
    /\ rg_source \in Sources
    /\ rg_range \in { CustomRange(a, b) :
                        a \in [line : 0..MaxAnyCoord, character : 0..MaxAnyCoord],
                        b \in [line : 0..MaxAnyCoord, character : 0..MaxAnyCoord] }
    /\ rg_position = rg_range.start
    /\ rg_contains = None
    /\ rg_length = None
    /\ PosIdle
    /\ tokens = << >>
    /\ source = << >>
    /\ current = 0
    /\ stack = << >>
    /\ result = [tag |-> "Idle"]
    /\ LexIdle
    /\ DiagIdle
    /\ ConcIdle
    /\ SkipIdle

AnyRangeSpec ==
    AnyRangeInit /\ [][RangeNext]_<<overflow_checks, pmvars, pvars, lxvars, rgvars, dgvars, ccvars, skvars>>


\* ================================================================ parser
\* ----------------------------------------------------- results of parse
Ok(v) == [tag |-> "Ok", v |-> v]
Panic == [tag |-> "Panic"]
Unit == [tag |-> "Unit"]

\* Error::new, as the to_error of the three error kinds builds it
Error(message, range, code, code_number) ==
    [tag |-> "Err", message |-> message, range |-> range, severity |-> "ERROR",
     code |-> code, code_number |-> code_number]

\* SyntaxError::new(tok.get_range(), message).to_error()
SyntaxError(tok, message) ==
    LET r == TokenGetRange(tok, source) IN
    IF r.panic THEN Panic ELSE Error(message, r.range, "syntax_error", 0)

\* TargeterAlreadyDefinedError::new(range).to_error()
TargeterAlreadyDefinedError(range) ==
    Error("The targeter is already defined for this skill line!", range,
          "targeter_already_defined_error", 1)

\* TriggerAlreadyDefinedError::new(range).to_error()
TriggerAlreadyDefinedError(range) ==
    Error("The trigger is already defined for this skill line!", range,
          "trigger_already_defined_error", 2)

\* ------------------------------------------------------------ AST nodes
SkillLine(mechanic, targeter, trigger, conditions, chance, health_modifier) ==
    [tag |-> "SkillLine", mechanic |-> mechanic, targeter |-> targeter,
     trigger |-> trigger, conditions |-> conditions, chance |-> chance,
     health_modifier |-> health_modifier]
GenericString(toks) == [tag |-> "GenericString", tokens |-> toks]
GenericNameAndMlc(name, mlc_) == [tag |-> "GenericNameAndMlc", name |-> name, mlc |-> mlc_]
Targeter(at, name, mlc_) == [tag |-> "Targeter", at |-> at, name |-> name, mlc |-> mlc_]
Trigger(caret, name, colon, arg) ==
    [tag |-> "Trigger", caret |-> caret, name |-> name, colon |-> colon, arg |-> arg]
InlineCondition(question_mark, exclamation_mark, tilde, name, mlc_) ==
    [tag |-> "InlineCondition", question_mark |-> question_mark,
     exclamation_mark |-> exclamation_mark, tilde |-> tilde, name |-> name, mlc |-> mlc_]
Chance(token) == [tag |-> "Chance", token |-> token]
HealthModifier(operator, value) ==
    [tag |-> "HealthModifier", operator |-> operator, value |-> value]
Value(v) == [tag |-> "Value", value |-> v]
Range(min, max) == [tag |-> "Range", min |-> min, max |-> max]
Absolute(tok) == [tag |-> "Absolute", number |-> tok]
Percentage(tok, percent) == [tag |-> "Percentage", number |-> tok, percent |-> percent]
MlcContainer(left_brace, mlcs, right_brace) ==
    [tag |-> "MlcContainer", left_brace |-> left_brace, mlcs |-> mlcs,
     right_brace |-> right_brace]
Mlc(key, equals, value, semicolon) ==
    [tag |-> "Mlc", key |-> key, equals |-> equals, value |-> value, semicolon |-> semicolon]
MlcValue(identifiers) == [tag |-> "MlcValue", identifiers |-> identifiers]
Identifiers(toks) == [tag |-> "Identifiers", tokens |-> toks]
Placeholder(left_angle_bracket, identifiers, dots, right_angle_bracket) ==
    [tag |-> "Placeholder", left_angle_bracket |-> left_angle_bracket,
     identifiers |-> identifiers, dots |-> dots,
     right_angle_bracket |-> right_angle_bracket]

\* MlcContainer::get_range
MlcContainerGetRange(m) ==
    LET s == TokenGetRange(m.left_brace, source)
        e == TokenGetRange(m.right_brace, source)
    IN  IF s.panic \/ e.panic THEN RangePanic
        ELSE RangeOk(CustomRange(s.range.start, e.range.end))

\* Targeter::get_range: the mlc is unwrapped whether or not there is one
TargeterGetRange(t) ==
    LET s == TokenGetRange(t.at, source) IN
    IF s.panic \/ t.mlc = None THEN RangePanic
    ELSE LET e == MlcContainerGetRange(t.mlc.v) IN
         IF e.panic THEN RangePanic
         ELSE RangeOk(CustomRange(s.range.start, e.range.end))

\* ------------------------------------------------------ cursor helpers
\* Parser::peek with the cursor at c
peek(c) == tokens[c + 1]

\* Parser::previous with the cursor at c; it indexes tokens[c - 1]
previous(c) == tokens[c]

\* Parser::is_at_end
is_at_end(c) == peek(c).type_ = "Eof"

\* Parser::check
check(c, type_) == IF is_at_end(c) THEN FALSE ELSE peek(c).type_ = type_

\* Parser::check_any
check_any(c, types) == \E type_ \in types : check(c, type_)

\* a variant of advance that goes on two tokens where two are left
advance_two(c) ==
    IF tokens[c + 1].type_ = "Eof" THEN c
    ELSE IF tokens[c + 2].type_ = "Eof" THEN c + 1
    ELSE c + 2

\* Parser::advance: the cursor it leaves; it then evaluates previous(),
\* which is out of bounds when the cursor was left at 0
advance(c) == IF ~is_at_end(c) THEN c + 1 ELSE c

\* whether the previous() at the end of advance indexes tokens[0 - 1]
advance_panics(c) == advance(c) = 0

\* the slice taken one token short: tokens[from..to - 1]
TokenSlice_short(from, to) == SubSeq(tokens, from + 1, to - 1)

\* self.tokens[from..to].to_vec()
TokenSlice(from, to) == SubSeq(tokens, from + 1, to)

\* Parser::matches: whether it matched, and the cursor it leaves
matches(c, type_) ==
    IF is_at_end(c) THEN [ok |-> FALSE, current |-> c]
    ELSE IF peek(c).type_ # type_ THEN [ok |-> FALSE, current |-> c]
    ELSE [ok |-> TRUE, current |-> advance(c)]

\* Parser::match_all over the sequence types: it stops at the first type
\* that is not at the cursor and keeps the advances made before
RECURSIVE match_all(_, _)
match_all(c, types) ==
    IF types = << >> THEN [ok |-> TRUE, current |-> c]
    ELSE IF ~check(c, Head(types)) THEN [ok |-> FALSE, current |-> c]
    ELSE match_all(advance(c), Tail(types))

\* Parser::consume: the token it returns and the cursor it leaves, or the error
consume(c, type_, error) ==
    IF check(c, type_)
    THEN [ok |-> TRUE, token |-> previous(advance(c)), current |-> advance(c)]
    ELSE [ok |-> FALSE, err |-> SyntaxError(peek(c), error)]

\* Parser::consume_any
consume_any(c, types, error) ==
    IF check_any(c, types)
    THEN [ok |-> TRUE, token |-> previous(advance(c)), current |-> advance(c)]
    ELSE [ok |-> FALSE, err |-> SyntaxError(peek(c), error)]

\* ------------------------------------------------------------ call stack
\* the running frame and the frames of its callers
Top == stack[Len(stack)]
Rest == SubSeq(stack, 1, Len(stack) - 1)

\* the running function goes on as frame f with the cursor at c
Goto(f, c) == [current |-> c, stack |-> Append(Rest, f), result |-> None]

\* the running function, left as frame f, calls the function of frame g
Call(f, g, c) == [current |-> c, stack |-> Rest \o << f, g >>, result |-> None]

\* the running function returns Ok(v): to its caller, or out of parse
Return(v, c) ==
    IF Rest = << >> THEN [current |-> c, stack |-> << >>, result |-> Ok(v)]
    ELSE [current |-> c,
          stack |-> Append(SubSeq(Rest, 1, Len(Rest) - 1),
                           [Rest[Len(Rest)] EXCEPT !.ret = v]),
          result |-> None]

\* a variant of the call of advance that moves the cursor at Eof as well
Advance_past_eof(f, c) == [current |-> c + 1, stack |-> Append(Rest, f), result |-> None]

\* the running function calls advance and goes on as frame f
Advance(f, c) ==
    IF advance_panics(c) THEN [current |-> advance(c), stack |-> << >>, result |-> Panic]
    ELSE Goto(f, advance(c))

\* the running function returns Err, which every caller passes on with
\* `?`, or it panics, which unwinds the stack
Raise(r, c) == [current |-> c, stack |-> << >>, result |-> r]

\* --------------------------------------------------------------- frames
SkillLineFrame(exit_types) ==
    [fn |-> "skill_line", pc |-> "start", exit_types |-> exit_types,
     mechanic |-> None, targeter |-> None, trigger |-> None, conditions |-> << >>,
     chance |-> None, health_modifier |-> None, ret |-> None]
GenericNameAndMlcFrame ==
    [fn |-> "generic_name_and_mlc", pc |-> "start", name |-> None, ret |-> None]
TargeterFrame ==
    [fn |-> "targeter", pc |-> "start", at |-> None, name |-> None, ret |-> None]
TriggerFrame ==
    [fn |-> "trigger", pc |-> "start", caret |-> None, name |-> None, colon |-> None,
     ret |-> None]
InlineConditionFrame ==
    [fn |-> "inline_condition", pc |-> "start", question |-> None, exclam |-> None,
     tilde |-> None, i |-> 0, name |-> None, ret |-> None]
HealthModifierFrame ==
    [fn |-> "health_modifier", pc |-> "start", operator |-> None, min |-> None,
     min_value |-> None, ret |-> None]
GenericStringFrame(end, error) ==
    [fn |-> "generic_string", pc |-> "start", end |-> end, error |-> error,
     start |-> 0, ret |-> None]
MlcFrame ==
    [fn |-> "mlc", pc |-> "start", left_brace |-> None, mlcs |-> << >>,
     semicolon |-> None, key |-> None, equals |-> None, ret |-> None]
MlcValueFrame ==
    [fn |-> "mlc_value", pc |-> "start", parts |-> << >>, start |-> 0, ret |-> None]
PlaceholderFrame ==
    [fn |-> "placeholder", pc |-> "start", left_square_bracket |-> None,
     parts |-> << >>, dots |-> << >>, ret |-> None]
ConsumeWhitespaceFrame ==
    [fn |-> "consume_whitespace", pc |-> "matches", matched |-> FALSE, ret |-> None]

\* ----------------------------------------------------------- skill_line
\* the SkillLine::new at the end of skill_line
SkillLineOf(f) ==
    SkillLine(f.mechanic, f.targeter, f.trigger, f.conditions, f.chance,
              f.health_modifier)

\* a variant of the chance arm that takes a Number after the `%` as well
skill_line_chance_with_number(f) ==
    LET percent == match_all(current, << "Percent" >>)
        number == matches(percent.current, "Number")
    IN  Goto([f EXCEPT !.chance = Some(Chance(previous(percent.current))),
                       !.pc = "loop"], number.current)

\* the arm of the modifier loop taken on `%`: the token match_all went
\* past is the chance
skill_line_chance(f) ==
    LET percent == match_all(current, << "Percent" >>) IN
    Goto([f EXCEPT !.chance = Some(Chance(previous(percent.current))),
                   !.pc = "loop"], percent.current)

\* a variant of the exit arm that takes the exit token
skill_line_exit_consumed(f) == Return(SkillLineOf(f), advance(current))

\* the arm of the modifier loop taken on an exit type: the break out of
\* the loop and the Ok(SkillLine::new(..)) after it
skill_line_exit(f) == Return(SkillLineOf(f), current)

\* one pass through the if-chain of the modifier loop, after consume_whitespace
skill_line_modifier(f) ==
    LET at == match_all(current, << "At" >>)
        tilde == match_all(current, << "Tilde" >>)
        question == match_all(current, << "Question" >>)
        percent == match_all(current, << "Percent" >>)
    IN
    IF is_at_end(current) THEN Return(SkillLineOf(f), current)
    ELSE IF at.ok THEN
        IF f.targeter # None THEN
            LET r == TargeterGetRange(f.targeter.v) IN
            IF r.panic THEN Raise(Panic, at.current)
            ELSE Raise(TargeterAlreadyDefinedError(r.range), at.current)
        ELSE Call([f EXCEPT !.pc = "targeter"], TargeterFrame, at.current)
    ELSE IF tilde.ok THEN
        IF f.trigger # None THEN
            IF f.targeter = None THEN Raise(Panic, tilde.current)
            ELSE LET r == TargeterGetRange(f.targeter.v) IN
                 IF r.panic THEN Raise(Panic, tilde.current)
                 ELSE Raise(TriggerAlreadyDefinedError(r.range), tilde.current)
        ELSE Call([f EXCEPT !.pc = "trigger"], TriggerFrame, tilde.current)
    ELSE IF question.ok THEN
        Call([f EXCEPT !.pc = "condition"], InlineConditionFrame, question.current)
    ELSE IF percent.ok THEN skill_line_chance(f)
    ELSE IF check_any(current, {"LessThan", "GreaterThan", "Equal"}) THEN
        Call([f EXCEPT !.pc = "health_modifier"], HealthModifierFrame, current)
    ELSE IF check_any(current, f.exit_types) THEN skill_line_exit(f)
    ELSE Raise(SyntaxError(peek(current), "Expected a valid skill line modifier"),
               current)

skill_line_step(f) ==
    CASE f.pc = "start" ->
            Call([f EXCEPT !.pc = "mechanic"], GenericNameAndMlcFrame, current)
      [] f.pc = "mechanic" ->
            Goto([f EXCEPT !.mechanic = f.ret, !.pc = "loop"], current)
      [] f.pc = "loop" ->
            IF is_at_end(current) THEN Return(SkillLineOf(f), current)
            ELSE Call([f EXCEPT !.pc = "modifier"], ConsumeWhitespaceFrame, current)
      [] f.pc = "modifier" -> skill_line_modifier(f)
      [] f.pc = "targeter" ->
            Goto([f EXCEPT !.targeter = Some(f.ret), !.pc = "loop"], current)
      [] f.pc = "trigger" ->
            Goto([f EXCEPT !.trigger = Some(f.ret), !.pc = "loop"], current)
      [] f.pc = "condition" ->
            Goto([f EXCEPT !.conditions = Append(f.conditions, f.ret), !.pc = "loop"],
                 current)
      [] f.pc = "health_modifier" ->
            Goto([f EXCEPT !.health_modifier = Some(f.ret), !.pc = "loop"], current)

\* ------------------------------------------------- generic_name_and_mlc
generic_name_and_mlc_step(f) ==
    CASE f.pc = "start" ->
            Call([f EXCEPT !.pc = "name"],
                 GenericStringFrame({"LeftBrace", "Space"}, Some("Expected mechanic name!")),
                 current)
      [] f.pc = "name" ->
            IF Len(f.ret.tokens) = 0
            THEN Raise(SyntaxError(peek(current), "Expected mechanic name!"), current)
            ELSE IF check(current, "LeftBrace")
            THEN Call([f EXCEPT !.name = f.ret, !.pc = "mlc"], MlcFrame, current)
            ELSE Return(GenericNameAndMlc(f.ret, None), current)
      [] f.pc = "mlc" -> Return(GenericNameAndMlc(f.name, Some(f.ret)), current)

\* ------------------------------------------------------------- targeter
targeter_step(f) ==
    CASE f.pc = "start" ->
            LET name == consume(current, "Identifier", "Expected targeter name!") IN
            IF current = 0 THEN Raise(Panic, current)
            ELSE IF ~name.ok THEN Raise(name.err, current)
            ELSE IF check(name.current, "LeftBrace")
            THEN Call([f EXCEPT !.at = previous(current), !.name = name.token,
                                !.pc = "mlc"], MlcFrame, name.current)
            ELSE Return(Targeter(previous(current), name.token, None), name.current)
      [] f.pc = "mlc" -> Return(Targeter(f.at, f.name, Some(f.ret)), current)

\* -------------------------------------------------------------- trigger
trigger_step(f) ==
    CASE f.pc = "start" ->
            IF current = 0 THEN Raise(Panic, current)
            ELSE Call([f EXCEPT !.caret = previous(current), !.pc = "name"],
                      GenericStringFrame({"LeftBrace", "Space"},
                                         Some("Expected a trigger name!")),
                      current)
      [] f.pc = "name" ->
            LET colon == match_all(current, << "Colon" >>) IN
            IF colon.ok
            THEN Call([f EXCEPT !.name = f.ret, !.colon = Some(previous(colon.current)),
                                !.pc = "arg"],
                      GenericStringFrame({"LeftBrace", "Space"},
                                         Some("Expected a trigger argument after ':'!")),
                      colon.current)
            ELSE Return(Trigger(f.caret, f.ret, None, None), current)
      [] f.pc = "arg" -> Return(Trigger(f.caret, f.name, f.colon, Some(f.ret)), current)

\* ----------------------------------------------------- inline_condition
\* exclam is bound once, to None, and is what the node is built with
inline_condition_step(f) ==
    CASE f.pc = "start" ->
            IF current = 0 THEN Raise(Panic, current)
            ELSE Goto([f EXCEPT !.question = previous(current), !.pc = "exclamation"],
                      current)
      [] f.pc = "exclamation" ->
            LET m == IF check_any(current, {"Exclamation", "Tilde"})
                     THEN match_all(current, << "Exclamation" >>)
                     ELSE [ok |-> FALSE, current |-> current]
            IN  IF m.ok /\ f.exclam # None
                THEN Raise(SyntaxError(peek(m.current),
                                       "Duplicate inline condition trigger symbol!"),
                           m.current)
                ELSE Goto([f EXCEPT !.pc = "tilde"], m.current)
      [] f.pc = "tilde" ->
            LET m == match_all(current, << "Tilde" >>)
                next == IF f.i + 1 < 2 THEN "exclamation" ELSE "name"
            IN  IF m.ok /\ f.tilde # None
                THEN Raise(SyntaxError(peek(m.current),
                                       "Duplicate inline condition trigger symbol!"),
                           m.current)
                ELSE IF m.ok
                THEN Goto([f EXCEPT !.tilde = Some(previous(m.current)),
                                    !.i = f.i + 1, !.pc = next], m.current)
                ELSE Goto([f EXCEPT !.i = f.i + 1, !.pc = next], current)
      [] f.pc = "name" ->
            LET name == consume(current, "Identifier", "Expected inline condition name!") IN
            IF ~name.ok THEN Raise(name.err, current)
            ELSE IF check(name.current, "LeftBrace")
            THEN Call([f EXCEPT !.name = name.token, !.pc = "mlc"], MlcFrame,
                      name.current)
            ELSE Return(InlineCondition(f.question, f.exclam, f.tilde, name.token, None),
                        name.current)
      [] f.pc = "mlc" ->
            Return(InlineCondition(f.question, f.exclam, f.tilde, f.name, Some(f.ret)),
                   current)

\* ------------------------------------------------------ health_modifier
\* a variant of the test that takes the `-` after any operator
health_modifier_dash_any_operator(f) ==
    LET m == match_all(current, << "Dash" >>) IN
    IF m.ok THEN Goto([f EXCEPT !.pc = "max"], m.current)
    ELSE Return(HealthModifier(f.operator, Value(f.min_value)), current)

\* the test `operator.type_ == Equal && match_all([Dash])` and its else branch
health_modifier_dash(f) ==
    LET m == IF f.operator.type_ = "Equal"
             THEN match_all(current, << "Dash" >>)
             ELSE [ok |-> FALSE, current |-> current]
    IN  IF m.ok THEN Goto([f EXCEPT !.pc = "max"], m.current)
        ELSE Return(HealthModifier(f.operator, Value(f.min_value)), current)

\* the second bound built from the first number instead of the second
health_modifier_max_first(f) ==
    LET max == consume(current, "Number", "Expected second health modifier value!") IN
    IF ~max.ok THEN Raise(max.err, current)
    ELSE Return(HealthModifier(f.operator,
                    Range(f.min_value,
                          IF check(max.current, "Percent")
                          THEN Percentage(f.min, previous(max.current))
                          ELSE Absolute(f.min))),
                max.current)

\* the second bound of a range: check(Percent) leaves the `%` where it is,
\* so the previous() of the Percentage is the number itself
health_modifier_max(f) ==
    LET max == consume(current, "Number", "Expected second health modifier value!") IN
    IF ~max.ok THEN Raise(max.err, current)
    ELSE Return(HealthModifier(f.operator,
                    Range(f.min_value,
                          IF check(max.current, "Percent")
                          THEN Percentage(max.token, previous(max.current))
                          ELSE Absolute(max.token))),
                max.current)

health_modifier_step(f) ==
    CASE f.pc = "start" ->
            LET operator == consume_any(current, {"Equal", "GreaterThan", "LessThan"},
                                        "Expected health modifier operator!") IN
            IF ~operator.ok THEN Raise(operator.err, current)
            ELSE Goto([f EXCEPT !.operator = operator.token, !.pc = "min"],
                      operator.current)
      [] f.pc = "min" ->
            LET min == consume(current, "Number", "Expected health modifier value!") IN
            IF ~min.ok THEN Raise(min.err, current)
            ELSE Goto([f EXCEPT !.min = min.token, !.min_value = Absolute(min.token),
                                !.pc = "percent"], min.current)
      [] f.pc = "percent" ->
            LET m == matches(current, "Percent") IN
            IF m.ok
            THEN Goto([f EXCEPT !.min_value = Percentage(f.min, previous(m.current)),
                                !.pc = "dash"], m.current)
            ELSE Goto([f EXCEPT !.pc = "dash"], current)
      [] f.pc = "dash" -> health_modifier_dash(f)
      [] f.pc = "max" -> health_modifier_max(f)

\* ------------------------------------------------------- generic_string
\* the end of generic_string, after its loop
generic_string_end(f) ==
    LET string == TokenSlice(f.start, current) IN
    IF Len(string) = 0 /\ f.error # None
    THEN Raise(SyntaxError(peek(current), f.error.v), current)
    ELSE Return(GenericString(string), current)

\* a variant of the skip that stops on the `}` and does not go past it
generic_string_brace_on_closer(f) ==
    IF ~check(current, "RightBrace") THEN Goto([f EXCEPT !.pc = "brace_body"], current)
    ELSE Goto([f EXCEPT !.pc = "loop"], current)

\* while !self.check(RightBrace): the test, then what follows the loop,
\* the test for `[` and the advance at the end of the outer loop
generic_string_brace(f) ==
    IF ~check(current, "RightBrace") THEN Goto([f EXCEPT !.pc = "brace_body"], current)
    ELSE IF check(current, "LeftSquareBracket")
    THEN Goto([f EXCEPT !.pc = "bracket"], current)
    ELSE Advance([f EXCEPT !.pc = "loop"], current)

generic_string_step(f) ==
    CASE f.pc = "start" -> Goto([f EXCEPT !.start = current, !.pc = "loop"], current)
      [] f.pc = "loop" ->
            IF ~check_any(current, f.end) /\ ~is_at_end(current)
            THEN IF check(current, "LeftBrace") THEN Goto([f EXCEPT !.pc = "brace"], current)
                 ELSE IF check(current, "LeftSquareBracket")
                 THEN Goto([f EXCEPT !.pc = "bracket"], current)
                 ELSE Advance(f, current)
            ELSE generic_string_end(f)
      [] f.pc = "brace" -> generic_string_brace(f)
      [] f.pc = "brace_body" -> Advance([f EXCEPT !.pc = "brace"], current)
      [] f.pc = "bracket" ->
            \* while !self.check(RightSquareBracket): the test, then the advance after it
            IF ~check(current, "RightSquareBracket")
            THEN Goto([f EXCEPT !.pc = "bracket_body"], current)
            ELSE Advance([f EXCEPT !.pc = "loop"], current)
      [] f.pc = "bracket_body" -> Advance([f EXCEPT !.pc = "bracket"], current)

\* ------------------------------------------------------------------ mlc
mlc_step(f) ==
    CASE f.pc = "start" ->
            LET left_brace == consume(current, "LeftBrace", "Expected '{' before mlc!") IN
            IF ~left_brace.ok THEN Raise(left_brace.err, current)
            ELSE Goto([f EXCEPT !.left_brace = left_brace.token, !.pc = "loop"],
                      left_brace.current)
      [] f.pc = "loop" ->
            LET lexeme == previous(current).lexeme
                previous_lexeme == IF lexeme = None THEN << >> ELSE lexeme.v
                semicolon == IF previous_lexeme = << ";" >> THEN Some(previous(current))
                             ELSE None
            IN  IF current = 0 THEN Raise(Panic, current)
                ELSE IF check(current, "RightBrace")
                THEN Goto([f EXCEPT !.semicolon = semicolon, !.pc = "close"], current)
                ELSE Call([f EXCEPT !.semicolon = semicolon, !.pc = "key"],
                          ConsumeWhitespaceFrame, current)
      [] f.pc = "key" ->
            LET key == consume(current, "Identifier", "Expected mlc key!") IN
            IF ~key.ok THEN Raise(key.err, current)
            ELSE Goto([f EXCEPT !.key = key.token, !.pc = "equals"], key.current)
      [] f.pc = "equals" ->
            LET equals == consume(current, "Equal", "Expected '=' after mlc key!") IN
            IF ~equals.ok THEN Raise(equals.err, current)
            ELSE Call([f EXCEPT !.equals = equals.token, !.pc = "value"], MlcValueFrame,
                      equals.current)
      [] f.pc = "value" ->
            Call([f EXCEPT !.mlcs = Append(f.mlcs, Mlc(f.key, f.equals, f.ret, f.semicolon)),
                           !.pc = "whitespace"],
                 ConsumeWhitespaceFrame, current)
      [] f.pc = "whitespace" ->
            Call([f EXCEPT !.pc = "semicolon"], ConsumeWhitespaceFrame, current)
      [] f.pc = "semicolon" ->
            LET m == match_all(current, << "Semicolon" >>) IN
            IF ~m.ok THEN Goto([f EXCEPT !.pc = "close"], current)
            ELSE Goto([f EXCEPT !.pc = "loop"], m.current)
      [] f.pc = "close" ->
            LET right_brace == consume(current, "RightBrace", "Expected '}' after mlc!") IN
            IF ~right_brace.ok THEN Raise(right_brace.err, current)
            ELSE Return(MlcContainer(f.left_brace, f.mlcs, right_brace.token),
                        right_brace.current)

\* ------------------------------------------------------------ mlc_value
mlc_value_step(f) ==
    CASE f.pc = "start" -> Goto([f EXCEPT !.start = current, !.pc = "loop"], current)
      [] f.pc = "loop" ->
            LET less == match_all(current, << "LessThan" >>)
                brace == match_all(current, << "LeftBrace" >>)
                bracket == match_all(current, << "LeftSquareBracket" >>)
            IN
            IF ~check_any(current, {"Semicolon", "RightBrace"}) /\ ~is_at_end(current)
            THEN IF less.ok
                 THEN Call([f EXCEPT !.parts = Append(f.parts,
                                          Identifiers(TokenSlice(f.start, less.current - 1))),
                                     !.pc = "placeholder"],
                           PlaceholderFrame, less.current)
                 ELSE IF brace.ok THEN Goto([f EXCEPT !.pc = "brace"], brace.current)
                 ELSE IF bracket.ok THEN Goto([f EXCEPT !.pc = "bracket"], bracket.current)
                 ELSE Advance(f, current)
            ELSE Return(MlcValue(Append(f.parts, Identifiers(TokenSlice(f.start, current)))),
                        current)
      [] f.pc = "placeholder" ->
            Goto([f EXCEPT !.parts = Append(f.parts, f.ret), !.start = current,
                           !.pc = "loop"], current)
      [] f.pc = "brace" ->
            \* while !self.match_all([RightBrace]): the test
            LET m == match_all(current, << "RightBrace" >>) IN
            IF ~m.ok THEN Goto([f EXCEPT !.pc = "brace_body"], current)
            ELSE Goto([f EXCEPT !.pc = "loop"], m.current)
      [] f.pc = "brace_body" -> Advance([f EXCEPT !.pc = "brace"], current)
      [] f.pc = "bracket" ->
            \* while !self.match_all([RightSquareBracket]): the test
            LET m == match_all(current, << "RightSquareBracket" >>) IN
            IF ~m.ok THEN Goto([f EXCEPT !.pc = "bracket_body"], current)
            ELSE Goto([f EXCEPT !.pc = "loop"], m.current)
      [] f.pc = "bracket_body" -> Advance([f EXCEPT !.pc = "bracket"], current)

\* ---------------------------------------------------------- placeholder
placeholder_step(f) ==
    CASE f.pc = "start" ->
            LET left_square_bracket ==
                    consume(current, "LeftSquareBracket", "Expected '[' before placeholder!")
            IN  IF ~left_square_bracket.ok THEN Raise(left_square_bracket.err, current)
                ELSE Call([f EXCEPT !.left_square_bracket = left_square_bracket.token,
                                    !.pc = "part"],
                          GenericNameAndMlcFrame, left_square_bracket.current)
      [] f.pc = "part" ->
            Goto([f EXCEPT !.parts = Append(f.parts, f.ret), !.pc = "dots"], current)
      [] f.pc = "dots" ->
            LET dot == match_all(current, << "Dot" >>) IN
            IF dot.ok /\ ~is_at_end(dot.current)
            THEN Call([f EXCEPT !.dots = Append(f.dots, previous(dot.current)),
                                !.pc = "part"],
                      GenericNameAndMlcFrame, dot.current)
            ELSE Goto([f EXCEPT !.pc = "close"], dot.current)
      [] f.pc = "close" ->
            LET right_square_bracket ==
                    consume(current, "GreaterThan", "Expected '>' after placeholder!")
            IN  IF ~right_square_bracket.ok THEN Raise(right_square_bracket.err, current)
                ELSE Return(Placeholder(f.left_square_bracket, f.parts, f.dots,
                                        right_square_bracket.token),
                            right_square_bracket.current)

\* --------------------------------------------------- consume_whitespace
\* while !self.matches(Space) {}: the call of matches, then the loop test
consume_whitespace_step(f) ==
    CASE f.pc = "matches" ->
            LET m == matches(current, "Space") IN
            Goto([f EXCEPT !.matched = m.ok, !.pc = "test"], m.current)
      [] f.pc = "test" ->
            IF f.matched THEN Return(Unit, current)
            ELSE Goto([f EXCEPT !.pc = "matches"], current)

\* ---------------------------------------------------------------- inputs
\* bounds: the longest token sequence over the whole token alphabet, and
\* the most words after the mechanic name in a skill line made of words
MaxLen == 2
MaxWords == 3

\* the pieces skill lines are put together from
Words ==
    { << "Space" >>,
      << "Space", "At", "Identifier" >>,
      << "Space", "At", "Identifier", "LeftBrace", "RightBrace" >>,
      << "Space", "Tilde", "Identifier" >>,
      << "Space", "Question", "Identifier" >>,
      << "Space", "Percent" >>,
      << "Space", "Equal", "Number" >>,
      << "Space", "GreaterThan", "Number" >>,
      << "Space", "LessThan", "Number" >>,
      << "Dash", "Number" >>,
      << "Percent" >>,
      << "Number" >>,
      << "LeftBrace", "RightBrace" >> }

RECURSIVE WordSeqs(_)
WordSeqs(n) ==
    IF n = 0 THEN { << >> }
    ELSE { s \o w : s \in WordSeqs(n - 1), w \in Words }

\* `fireball{damage=10} @EntitiesInRadius{radius=5} ~onDamaged ?enemy %50 >10`
FullLine ==
    << "Identifier", "LeftBrace", "Identifier", "Equal", "Number", "RightBrace", "Space",
       "At", "Identifier", "LeftBrace", "Identifier", "Equal", "Number", "RightBrace", "Space",
       "Tilde", "Identifier", "Space", "Question", "Identifier", "Space",
       "Percent", "Number", "Space", "GreaterThan", "Number" >>

\* `fireball{power=<caster.name>}`
PlaceholderLine ==
    << "Identifier", "LeftBrace", "Identifier", "Equal", "LessThan", "Identifier", "Dot",
       "Identifier", "GreaterThan", "RightBrace" >>

\* further lines with a mechanic line config
MlcLines ==
    { << "Identifier", "LeftBrace", "Space", "Identifier", "Equal", "LessThan",
         "LeftSquareBracket", "Identifier", "LeftBrace", "RightBrace", "Dot", "Identifier",
         "LeftBrace", "RightBrace", "GreaterThan", "RightBrace" >>,
      << "Identifier", "LeftBrace", "Space", "Identifier", "Equal", "LeftBrace",
         "Identifier", "RightBrace", "LeftSquareBracket", "Identifier",
         "RightSquareBracket", "Semicolon", "Identifier", "Equal", "Number", "RightBrace" >>,
      << "Identifier", "LeftSquareBracket", "Space", "RightSquareBracket", "Space",
         "Tilde", "Identifier", "Colon", "Identifier", "Space", "Question", "Exclamation",
         "Tilde", "Identifier", "LeftBrace", "RightBrace" >> }

\* `a{ k=[- b - c]}`: an entry whose value is an inline-skill list
InlineSkillLine ==
    << "Identifier", "LeftBrace", "Space", "Identifier", "Equal", "LeftSquareBracket",
       "Dash", "Space", "Identifier", "Space", "Dash", "Space", "Identifier",
       "RightSquareBracket", "RightBrace" >>

\* `a ~b:c`: a trigger with an argument
TriggerLine == << "Identifier", "Space", "Tilde", "Identifier", "Colon", "Identifier" >>

\* `a[[] ]`: a name with a bracket inside a bracket and a space after it
NestedBracketLine ==
    << "Identifier", "LeftSquareBracket", "LeftSquareBracket", "RightSquareBracket",
       "Space", "RightSquareBracket" >>

\* `a{ b=1}`: a mechanic line config with one entry
MlcEntryLine ==
    << "Identifier", "LeftBrace", "Space", "Identifier", "Equal", "Number", "RightBrace" >>

\* `a ?!!b`: an inline condition with `!` twice
ConditionLine ==
    << "Identifier", "Space", "Question", "Exclamation", "Exclamation", "Identifier" >>

Inputs ==
    SeqsUpTo(TokenType \ {"Eof"}, MaxLen)
        \cup { << "Identifier" >> \o s : s \in UNION { WordSeqs(k) : k \in 0..MaxWords } }
        \cup { FullLine, PlaceholderLine } \cup MlcLines
        \cup { InlineSkillLine, TriggerLine, NestedBracketLine }
        \cup { MlcEntryLine, ConditionLine }

\* ------------------------------------------------------------- machine
\* Parser::new(tokens, source) over the scan of an input
Init ==
    /\ overflow_checks \in BOOLEAN
    /\ \E types \in Inputs :
          /\ tokens = ScanOf(types)
          /\ source = SourceOf(types)
    /\ current = 0
    /\ stack = << >>
    /\ result = None
    /\ PosIdle
    /\ LexIdle
    /\ RangeIdle
    /\ DiagIdle
    /\ ConcIdle
    /\ SkipIdle

\* the step effect e takes place
Apply(e) ==
    /\ current' = e.current
    /\ stack' = e.stack
    /\ result' = e.result
    /\ UNCHANGED <<tokens, source, overflow_checks, pmvars, lxvars, rgvars, dgvars, ccvars, skvars>>

\* the function fn is the one running
Running(fn) == result = None /\ stack # << >> /\ Top.fn = fn

\* Parser::parse: it calls skill_line with no exit types
parse ==
    /\ result = None
    /\ stack = << >>
    /\ Apply([current |-> current, stack |-> << SkillLineFrame({}) >>, result |-> None])

skill_line == Running("skill_line") /\ Apply(skill_line_step(Top))
generic_name_and_mlc == Running("generic_name_and_mlc") /\ Apply(generic_name_and_mlc_step(Top))
targeter == Running("targeter") /\ Apply(targeter_step(Top))
trigger == Running("trigger") /\ Apply(trigger_step(Top))
inline_condition == Running("inline_condition") /\ Apply(inline_condition_step(Top))
health_modifier == Running("health_modifier") /\ Apply(health_modifier_step(Top))
generic_string == Running("generic_string") /\ Apply(generic_string_step(Top))
mlc == Running("mlc") /\ Apply(mlc_step(Top))
mlc_value == Running("mlc_value") /\ Apply(mlc_value_step(Top))
placeholder == Running("placeholder") /\ Apply(placeholder_step(Top))
consume_whitespace == Running("consume_whitespace") /\ Apply(consume_whitespace_step(Top))

Next ==
    \/ parse
    \/ skill_line
    \/ generic_name_and_mlc
    \/ targeter
    \/ trigger
    \/ inline_condition
    \/ health_modifier
    \/ generic_string
    \/ mlc
    \/ mlc_value
    \/ placeholder
    \/ consume_whitespace

vars == <<overflow_checks, pm_source, pm_offset, pm_pos, pm_back, pm_again, pm_pc,
          tokens, source, current, stack, result, lxvars, rgvars, dgvars, ccvars, skvars>>

Spec == Init /\ [][Next]_vars

\* the parser runs on: a step that is enabled is eventually taken
FairSpec == Spec /\ WF_vars(Next)

\* ---------------------------------------------------------- inline_skill
\* most words after the mechanic name of a skill line inside `[`..`]`
MaxInlineWords == 2

InlineSkill(left_square_bracket, skills) ==
    [tag |-> "InlineSkill", left_square_bracket |-> left_square_bracket,
     skills |-> skills]
InlineSkillSkillContainer(dash, skill) ==
    [tag |-> "InlineSkillSkillContainer", dash |-> dash, skill |-> skill]

InlineSkillFrame ==
    [fn |-> "inline_skill", pc |-> "start", left_square_bracket |-> None, dash |-> None,
     skill |-> None, dashes_and_skills |-> << >>, ret |-> None]

\* what follows the loop of inline_skill: the closing `]`
inline_skill_end(f) ==
    LET right == consume(current, "RightSquareBracket",
                         "Expected ']' after inline skill!") IN
    IF ~right.ok THEN Raise(right.err, current)
    ELSE Return(InlineSkill(f.left_square_bracket, f.dashes_and_skills), right.current)

inline_skill_step(f) ==
    CASE f.pc = "start" ->
            IF current = 0 THEN Raise(Panic, current)
            ELSE Goto([f EXCEPT !.left_square_bracket = previous(current), !.pc = "loop"],
                      current)
      [] f.pc = "loop" ->
            IF ~check(current, "RightSquareBracket") /\ ~is_at_end(current)
            THEN Call([f EXCEPT !.pc = "dash"], ConsumeWhitespaceFrame, current)
            ELSE inline_skill_end(f)
      [] f.pc = "dash" ->
            LET dash == consume(current, "Dash", "Expected '-' after '['!") IN
            IF ~dash.ok THEN Raise(dash.err, current)
            ELSE Call([f EXCEPT !.dash = dash.token, !.pc = "skill_line"],
                      ConsumeWhitespaceFrame, dash.current)
      [] f.pc = "skill_line" ->
            Call([f EXCEPT !.pc = "skill"],
                 SkillLineFrame({"RightSquareBracket", "Dash"}), current)
      [] f.pc = "skill" ->
            Call([f EXCEPT !.skill = f.ret, !.pc = "push"], ConsumeWhitespaceFrame, current)
      [] f.pc = "push" ->
            Goto([f EXCEPT !.dashes_and_skills =
                               Append(f.dashes_and_skills,
                                      InlineSkillSkillContainer(f.dash, f.skill)),
                           !.pc = "loop"], current)

\* the skill lines put inside the brackets
InlineLines ==
    { << "Identifier" >> \o s : s \in UNION { WordSeqs(k) : k \in 0..MaxInlineWords } }
        \cup { FullLine, PlaceholderLine } \cup MlcLines

\* what stands between a skill line and the end of the input
InlineTails ==
    { << >>,
      << "RightSquareBracket" >>,
      << "Space", "RightSquareBracket" >>,
      << "Space", "Dash", "Space", "Identifier", "Space", "RightSquareBracket" >> }

\* `[ - line]`, `[ - line ]`, `[ - line - a ]` and the unclosed `[ - line`,
\* and the same without the Space before the first `-`
InlineInputs ==
    { head \o line \o tail :
        head \in { << "LeftSquareBracket", "Space", "Dash", "Space" >>,
                   << "LeftSquareBracket", "Dash", "Space" >>,
                   << "LeftSquareBracket" >> },
        line \in InlineLines, tail \in InlineTails }

\* inline_skill is entered with the `[` just behind the cursor
InlineInit ==
    /\ overflow_checks \in BOOLEAN
    /\ \E types \in InlineInputs :
          /\ tokens = ScanOf(types)
          /\ source = SourceOf(types)
    /\ current = 1
    /\ stack = << InlineSkillFrame >>
    /\ result = None
    /\ PosIdle
    /\ LexIdle
    /\ RangeIdle
    /\ DiagIdle
    /\ ConcIdle
    /\ SkipIdle

inline_skill == Running("inline_skill") /\ Apply(inline_skill_step(Top))

InlineNext ==
    \/ inline_skill
    \/ skill_line
    \/ generic_name_and_mlc
    \/ targeter
    \/ trigger
    \/ inline_condition
    \/ health_modifier
    \/ generic_string
    \/ mlc
    \/ mlc_value
    \/ placeholder
    \/ consume_whitespace

InlineSpec == InlineInit /\ [][InlineNext]_vars

\* =============================================================== scanner
\* longest source string of the scanner, the samples aside
MaxScanLen == 3

\* the character '\0' that peek and peek_next answer at the end
NUL == "NUL"
TAB == "\t"
DoubleQuote == "\""
SingleQuote == "'"

\* the characters scan_token turns into a token of their own
Structural ==
    { "[", "]", "{", "}", ";", "=", "-", "@", "~", "?", "!", ":", "<", ">", ".", "%", " " }

\* the token type of a structural character
TokenTypeOfChar(c) ==
    CASE c = "[" -> "LeftSquareBracket"
      [] c = "]" -> "RightSquareBracket"
      [] c = "{" -> "LeftBrace"
      [] c = "}" -> "RightBrace"
      [] c = ";" -> "Semicolon"
      [] c = "=" -> "Equal"
      [] c = "-" -> "Dash"
      [] c = "@" -> "At"
      [] c = "~" -> "Tilde"
      [] c = "?" -> "Question"
      [] c = "!" -> "Exclamation"
      [] c = ":" -> "Colon"
      [] c = "<" -> "LessThan"
      [] c = ">" -> "GreaterThan"
      [] c = "." -> "Dot"
      [] c = "%" -> "Percent"
      [] c = " " -> "Space"

\* char::is_ascii_digit
is_ascii_digit(c) == c \in { "0", "1", "2", "3", "4", "5", "6", "7", "8", "9" }

\* char::is_alphabetic, over the letters the sources are written with
is_alphabetic(c) == c \in { "a", "b", "c" }

\* char::is_alphanumeric
is_alphanumeric(c) == is_alphabetic(c) \/ is_ascii_digit(c)

\* the characters the sources are written with: a structural character,
\* the dot, a space, a letter, the underscore, a digit, both quotes, the
\* line terminators, a tab and a character no rule matches
ScanChars == { "{", ".", " ", "a", "_", "1", DoubleQuote, SingleQuote, NL, CR, TAB, "#" }

\* longer sources: a string before a brace, an unterminated string, a
\* number with a fraction before a space, a string over two lines
ScanSamples ==
    { << DoubleQuote, "a", "b", DoubleQuote, "{" >>,
      << SingleQuote, "a", SingleQuote, " " >>,
      << DoubleQuote, "a", "b", "c" >>,
      << "1", ".", "1", " " >>,
      << "{", SingleQuote, NL, SingleQuote, "{" >> }

ScanSources == SeqsUpTo(ScanChars, MaxScanLen) \cup ScanSamples

\* MythicToken::new as the scanner calls it; the source every token
\* carries is lx_source
MythicToken_new(type_, lexeme, literal, line, start, current_) ==
    [type_ |-> type_, lexeme |-> lexeme, literal |-> literal, line |-> line,
     start |-> start, current |-> current_]

\* SyntaxError::new
SyntaxError_new(range, message) == [tag |-> "Err", range |-> range, message |-> message]

\* MythicScanner::is_at_end with the cursor at cur
Scanner_is_at_end(cur) == cur >= Len(lx_source)

\* MythicScanner::peek
Scanner_peek(cur) == IF Scanner_is_at_end(cur) THEN NUL ELSE lx_source[cur + 1]

\* MythicScanner::peek_next
peek_next(cur) == IF cur + 1 >= Len(lx_source) THEN NUL ELSE lx_source[cur + 2]

\* MythicScanner::advance panics when no character is left at the cursor
Scanner_advance_panics(cur) == cur >= Len(lx_source)

\* MythicScanner::get_range
Scanner_get_range(cur) ==
    LET s == from_offset(lx_start, lx_source)
        e == from_offset(cur, lx_source)
    IN  IF s.panic \/ e.panic THEN RangePanic
        ELSE RangeOk(CustomRange(s.pos, e.pos))

\* Err(SyntaxError::new(self.get_range(), message))
ScanError(cur, message) ==
    LET r == Scanner_get_range(cur) IN
    IF r.panic THEN Panic ELSE SyntaxError_new(r.range, message)

\* MythicScanner::add_token
add_token(type_, literal, line, cur) ==
    Append(lx_tokens,
           MythicToken_new(type_, Some(SubSeq(lx_source, lx_start + 1, cur)), literal,
                           line, lx_start, cur))

\* `while <peek is in S> { advance }`: the cursor the loop ends at
RECURSIVE advance_while(_, _)
advance_while(cur, S) ==
    IF Scanner_peek(cur) \in S THEN advance_while(cur + 1, S) ELSE cur

\* the loop of string: the cursor it ends at, on the closing quote or at
\* the end of the source
RECURSIVE advance_until(_, _)
advance_until(cur, end) ==
    IF Scanner_peek(cur) # end /\ ~Scanner_is_at_end(cur) THEN advance_until(cur + 1, end)
    ELSE cur

\* the line terminators the loop of string passes between two cursors
RECURSIVE NewlinesBetween(_, _)
NewlinesBetween(from, to) ==
    IF from >= to THEN 0
    ELSE (IF lx_source[from + 1] = NL THEN 1 ELSE 0) + NewlinesBetween(from + 1, to)

\* ---------------------------------------------------- scanner, as a machine
\* MythicScanner::new(source)
ScanInit ==
    /\ overflow_checks \in BOOLEAN
    /\ lx_source \in ScanSources
    /\ lx_tokens = << >>
    /\ lx_start = 0
    /\ lx_current = 0
    /\ lx_line = 1
    /\ lx_c = None
    /\ lx_pc = "scan_tokens"
    /\ lx_result = None
    /\ PosIdle
    /\ tokens = << >>
    /\ source = << >>
    /\ current = 0
    /\ stack = << >>
    /\ result = [tag |-> "Idle"]
    /\ RangeIdle
    /\ DiagIdle
    /\ ConcIdle
    /\ SkipIdle

\* the fields of the scanner, the local c of scan_token, the function
\* running and the result, as they stand
Scanner ==
    [tokens |-> lx_tokens, start |-> lx_start, current |-> lx_current, line |-> lx_line,
     c |-> lx_c, pc |-> lx_pc, result |-> lx_result]

\* the scanner goes on as e
ScanApply(e) ==
    /\ lx_tokens' = e.tokens
    /\ lx_start' = e.start
    /\ lx_current' = e.current
    /\ lx_line' = e.line
    /\ lx_c' = e.c
    /\ lx_pc' = e.pc
    /\ lx_result' = e.result
    /\ UNCHANGED <<overflow_checks, lx_source, pmvars, pvars, rgvars, dgvars, ccvars, skvars>>

\* a variant of the end of scan_tokens that pushes no Eof token
scan_tokens_end_without_eof == lx_tokens

\* the end of scan_tokens: the tokens with the Eof token pushed
scan_tokens_end ==
    Append(lx_tokens, MythicToken_new("Eof", None, None, lx_line, lx_start, lx_current))

\* one pass of the loop of scan_tokens, or its end
scan_tokens_step ==
    IF ~Scanner_is_at_end(lx_current)
    THEN [Scanner EXCEPT !.start = lx_current, !.pc = "scan_token"]
    ELSE [Scanner EXCEPT !.tokens = scan_tokens_end, !.result = Ok(scan_tokens_end),
                         !.pc = "done"]

\* scan_token from its start to the end of the match, and, after number
\* or identifier returned Ok, the statement after the if of the last arm
scan_token_step ==
    IF lx_pc = "scan_token_end"
    THEN [Scanner EXCEPT !.result = ScanError(lx_current, "Unexpected character: " \o lx_c),
                         !.pc = "done"]
    ELSE LET c == lx_source[lx_current + 1]
             cur == lx_current + 1
             s == [Scanner EXCEPT !.current = cur, !.c = c]
         IN  CASE c \in Structural ->
                    [s EXCEPT !.tokens = add_token(TokenTypeOfChar(c), None, lx_line, cur),
                              !.pc = "scan_tokens"]
               [] c \in { CR, TAB } -> [s EXCEPT !.pc = "scan_tokens"]
               [] c = NL -> [s EXCEPT !.line = lx_line + 1, !.pc = "scan_tokens"]
               [] c \in { DoubleQuote, SingleQuote } -> [s EXCEPT !.pc = "string"]
               [] is_ascii_digit(c) -> [s EXCEPT !.pc = "number"]
               [] is_alphabetic(c) \/ c = "_" -> [s EXCEPT !.pc = "identifier"]
               [] OTHER -> [s EXCEPT !.result = ScanError(cur, "Unexpected character: " \o c),
                                     !.pc = "done"]

\* MythicScanner::number
number_step ==
    LET Digits == { c \in ScanChars : is_ascii_digit(c) }
        whole == advance_while(lx_current, Digits)
        cur == IF Scanner_peek(whole) = "." /\ is_ascii_digit(peek_next(whole))
               THEN advance_while(whole + 1, Digits)
               ELSE whole
        value == SubSeq(lx_source, lx_start + 1, cur)
    IN  [Scanner EXCEPT !.current = cur,
                        !.tokens = add_token("Number", Some(value), lx_line, cur),
                        !.pc = "scan_token_end"]

\* MythicScanner::identifier
identifier_step ==
    LET Word == { c \in ScanChars \cup { "b", "c" } : is_alphanumeric(c) \/ c = "_" }
        cur == advance_while(lx_current, Word)
        value == SubSeq(lx_source, lx_start + 1, cur)
    IN  [Scanner EXCEPT !.current = cur,
                        !.tokens = add_token("Identifier", Some(value), lx_line, cur),
                        !.pc = "scan_token_end"]

\* MythicScanner::string, with the quote that opened it in lx_c
string_step ==
    LET quote == advance_until(lx_current, lx_c)
        line == lx_line + NewlinesBetween(lx_current, quote)
        cur == quote + 1
        value == SubSeq(lx_source, lx_start + 2, cur - 1)
    IN  IF Scanner_advance_panics(quote)
        THEN [Scanner EXCEPT !.current = cur, !.line = line, !.result = Panic, !.pc = "done"]
        ELSE IF Scanner_is_at_end(cur)
        THEN [Scanner EXCEPT !.current = cur, !.line = line,
                             !.result = ScanError(cur, "Unterminated string."), !.pc = "done"]
        ELSE [Scanner EXCEPT !.current = cur, !.line = line,
                             !.tokens = add_token("String", Some(value), line, cur),
                             !.pc = "scan_tokens"]

scan_tokens == lx_pc = "scan_tokens" /\ ScanApply(scan_tokens_step)
scan_token == lx_pc \in { "scan_token", "scan_token_end" } /\ ScanApply(scan_token_step)
number == lx_pc = "number" /\ ScanApply(number_step)
identifier == lx_pc = "identifier" /\ ScanApply(identifier_step)
string == lx_pc = "string" /\ ScanApply(string_step)

ScanNext ==
    \/ scan_tokens
    \/ scan_token
    \/ number
    \/ identifier
    \/ string

ScanSpec ==
    ScanInit /\ [][ScanNext]_<<overflow_checks, pmvars, pvars, lxvars, rgvars, dgvars, ccvars, skvars>>

\* ============================================================ diagnostics
\* largest line and character of the ranges of the errors converted
MaxDiagCoord == 1

\* tower_lsp DiagnosticSeverity
DiagnosticSeverity == { "ERROR", "WARNING", "INFORMATION", "HINT" }

\* InvalidConfigurationFileStructureError::new(range, got, expected).to_error()
InvalidConfigurationFileStructureError(range, got, expected) ==
    Error("Invalid configuration file structure. Expected " \o expected \o ", got " \o got,
          range, "invalid_configuration_file_structure_error", 3)

\* one decimal digit, as Display writes it
DigitChar(n) ==
    CASE n = 0 -> "0" [] n = 1 -> "1" [] n = 2 -> "2" [] n = 3 -> "3" [] n = 4 -> "4"
      [] n = 5 -> "5" [] n = 6 -> "6" [] n = 7 -> "7" [] n = 8 -> "8" [] n = 9 -> "9"

\* a natural number in decimal, no leading zeros
RECURSIVE Decimal(_)
Decimal(n) == IF n < 10 THEN DigitChar(n) ELSE Decimal(n \div 10) \o DigitChar(n % 10)

\* `{}` of an i32
i32_to_string(n) == IF n < 0 THEN "-" \o Decimal(0 - n) ELSE Decimal(n)

\* CustomPosition::to_position
to_position(p) == [tag |-> "Position", line |-> p.line, character |-> p.character]

\* CustomRange::to_range
to_range(r) == [tag |-> "Range", start |-> to_position(r.start), end |-> to_position(r.end)]

\* NumberOrString::String
NumberOrString_String(str) == [tag |-> "String", v |-> str]

\* a variant of to_diagnostic whose code leaves the number out
to_diagnostic_code_only(e) ==
    [range |-> to_range(e.range),
     severity |-> Some(e.severity),
     code |-> Some(NumberOrString_String(e.code)),
     source |-> Some("Mythic Language Server"),
     message |-> e.message,
     related_information |-> None, tags |-> None, data |-> None, code_description |-> None]

\* Error::to_diagnostic
to_diagnostic(e) ==
    [range |-> to_range(e.range),
     severity |-> Some(e.severity),
     code |-> Some(NumberOrString_String(i32_to_string(e.code_number) \o ": " \o e.code)),
     source |-> Some("Mythic Language Server"),
     message |-> e.message,
     related_information |-> None, tags |-> None, data |-> None, code_description |-> None]

\* the ranges of the errors converted
DiagRanges ==
    LET P == { CustomPosition(l, c) : l \in 0..MaxDiagCoord, c \in 0..MaxDiagCoord }
    IN  { CustomRange(a, b) : a \in P, b \in P }

\* the errors of the four declared kinds over a range
DeclaredErrors(range) ==
    { Error(m, range, "syntax_error", 0) :
        m \in { "Unterminated string.", "Expected '[' before placeholder!" } }
      \cup { TargeterAlreadyDefinedError(range), TriggerAlreadyDefinedError(range) }
      \cup { InvalidConfigurationFileStructureError(range, got, expected) :
               got \in { "list", "scalar" }, expected \in { "map" } }

\* errors built with Error::new directly, of any severity and code number
DirectErrors(range) ==
    { [Error("m", range, "c", n) EXCEPT !.severity = sev] :
        n \in { -12, -1, 7, 10, 123 }, sev \in DiagnosticSeverity }

\* Error::new
DiagInit ==
    /\ overflow_checks \in BOOLEAN
    /\ \E range \in DiagRanges : dg_error \in DeclaredErrors(range) \cup DirectErrors(range)
    /\ dg_diagnostic = None
    /\ PosIdle
    /\ tokens = << >>
    /\ source = << >>
    /\ current = 0
    /\ stack = << >>
    /\ result = [tag |-> "Idle"]
    /\ LexIdle
    /\ RangeIdle
    /\ ConcIdle
    /\ SkipIdle

\* dg_error.to_diagnostic()
ErrorToDiagnostic ==
    /\ dg_error # None
    /\ dg_diagnostic = None
    /\ dg_diagnostic' = Some(to_diagnostic(dg_error))
    /\ UNCHANGED <<overflow_checks, dg_error, pmvars, pvars, lxvars, rgvars, ccvars, skvars>>

DiagNext == ErrorToDiagnostic

DiagSpec ==
    DiagInit /\ [][DiagNext]_<<overflow_checks, pmvars, pvars, lxvars, rgvars, dgvars, ccvars, skvars>>

\* ============================================================== two skips
\* The skip of generic_string and the skip of mlc_value, one after the
\* other on the same tokens, each from the top of its loop with the
\* cursor on the opener at index 0.

\* most tokens after the opener
MaxSkipLen == 3

\* the token types after the opener
SkipTypes ==
    { "LeftBrace", "RightBrace", "LeftSquareBracket", "RightSquareBracket",
      "Identifier", "Space", "Semicolon" }

SkipInputs ==
    { << opener >> \o rest :
        opener \in { "LeftBrace", "LeftSquareBracket" },
        rest \in SeqsUpTo(SkipTypes, MaxSkipLen) }

\* the routine is back at the top of its loop, past the opener
SkipEnded ==
    /\ stack # << >>
    /\ Top.pc = "loop"
    /\ current > 0

\* the routine tests for the closer with the cursor on the Eof, where
\* advance leaves it: the skip loop does not end
SkipSpins ==
    /\ stack # << >>
    /\ Top.pc \in { "brace", "bracket" }
    /\ is_at_end(current)

\* where the routine left the cursor, and whether its loop came to an end
SkipOutcome == [ended |-> SkipEnded, current |-> current]

SkipInit ==
    /\ overflow_checks \in BOOLEAN
    /\ \E types \in SkipInputs :
          /\ tokens = ScanOf(types)
          /\ source = SourceOf(types)
    /\ current = 0
    /\ stack = << [GenericStringFrame({ "Space" }, None) EXCEPT !.pc = "loop"] >>
    /\ result = None
    /\ sk_phase = "generic_string"
    /\ sk_outcomes = << >>
    /\ PosIdle
    /\ LexIdle
    /\ RangeIdle
    /\ DiagIdle
    /\ ConcIdle

\* the skip of generic_string is over: mlc_value starts on the same opener
SkipAgain ==
    /\ sk_phase = "generic_string"
    /\ SkipEnded \/ SkipSpins
    /\ sk_outcomes' = Append(sk_outcomes, SkipOutcome)
    /\ sk_phase' = "mlc_value"
    /\ current' = 0
    /\ stack' = << [MlcValueFrame EXCEPT !.pc = "loop"] >>
    /\ UNCHANGED <<tokens, source, result, overflow_checks, pmvars, lxvars, rgvars,
                   dgvars, ccvars>>

\* the skip of mlc_value is over
SkipDone ==
    /\ sk_phase = "mlc_value"
    /\ SkipEnded \/ SkipSpins
    /\ sk_outcomes' = Append(sk_outcomes, SkipOutcome)
    /\ sk_phase' = "done"
    /\ UNCHANGED <<pvars, overflow_checks, pmvars, lxvars, rgvars, dgvars, ccvars>>

SkipNext ==
    \/ sk_phase = "generic_string" /\ ~SkipEnded /\ generic_string
    \/ sk_phase = "mlc_value" /\ ~SkipEnded /\ mlc_value
    \/ SkipAgain
    \/ SkipDone

SkipSpec == SkipInit /\ [][SkipNext]_vars

\* =============================================================== two runs
\* Two scanners, or two parsers, on different inputs. The lx_ variables, or
\* the parser variables, hold the fields of the instance that is running;
\* cc_other holds the fields of the other. Each instance first runs by
\* itself, then both run again with their steps interleaved.

\* a variant of the scanner in which line is a static, not a field
MythicScanner_static_line == { "source", "tokens", "start", "current" }

\* the fields of struct MythicScanner: what an instance owns
MythicScanner == { "source", "tokens", "start", "current", "line" }

\* the fields of struct Parser that its functions read and write; the
\* field result is set to an empty Vec by new and never touched again
Parser == { "tokens", "source", "current" }

\* MythicScanner::new(src), with the activation of scan_tokens not yet begun
MythicScanner_new(src) ==
    [source |-> src, tokens |-> << >>, start |-> 0, current |-> 0, line |-> 1,
     c |-> None, pc |-> "scan_tokens", result |-> None]

\* Parser::new over the scan of types, with parse not yet called
Parser_new(types) ==
    [tokens |-> ScanOf(types), source |-> SourceOf(types), current |-> 0,
     stack |-> << >>, result |-> None]

\* sources of the two scanners: two lines of structural characters, a
\* string over two lines, an identifier, a number, an unexpected character
\* and an unterminated string
ConcSources ==
    { << "{", NL, "." >>,
      << DoubleQuote, "a", NL, DoubleQuote, "{" >>,
      << " ", "a" >>,
      << "1", ".", "1" >>,
      << NL, "#" >>,
      << SingleQuote, "a" >> }

\* token types of the two parsers: `a{ b=<c.d>  } @e `, `a @e ~b ?c `,
\* `a =1-1 %` and `a  `
ConcLines ==
    { << "Identifier", "LeftBrace", "Space", "Identifier", "Equal", "LessThan",
         "Identifier", "Dot", "Identifier", "GreaterThan", "Space", "Space", "RightBrace",
         "Space", "At", "Identifier", "Space" >>,
      << "Identifier", "Space", "At", "Identifier", "Space", "Tilde", "Identifier",
         "Space", "Question", "Identifier", "Space" >>,
      << "Identifier", "Space", "Equal", "Number", "Dash", "Number", "Space", "Percent" >>,
      << "Identifier", "Space", "Space" >> }

\* what the running instance holds, fields and activation
ScannerNow ==
    [source |-> lx_source, tokens |-> lx_tokens, start |-> lx_start,
     current |-> lx_current, line |-> lx_line, c |-> lx_c, pc |-> lx_pc,
     result |-> lx_result]
ParserNow ==
    [tokens |-> tokens, source |-> source, current |-> current, stack |-> stack,
     result |-> result]

\* a field of the struct comes with the instance; anything else stays
Own(fields, name, own, shared) == IF name \in fields THEN own ELSE shared

\* the scanner s takes over the lx_ variables
ResumeScanner(s) ==
    /\ lx_source' = Own(MythicScanner, "source", s.source, lx_source)
    /\ lx_tokens' = Own(MythicScanner, "tokens", s.tokens, lx_tokens)
    /\ lx_start' = Own(MythicScanner, "start", s.start, lx_start)
    /\ lx_current' = Own(MythicScanner, "current", s.current, lx_current)
    /\ lx_line' = Own(MythicScanner, "line", s.line, lx_line)
    /\ lx_c' = s.c
    /\ lx_pc' = s.pc
    /\ lx_result' = s.result
    /\ UNCHANGED pvars

\* the parser s takes over the parser variables
ResumeParser(s) ==
    /\ tokens' = Own(Parser, "tokens", s.tokens, tokens)
    /\ source' = Own(Parser, "source", s.source, source)
    /\ current' = Own(Parser, "current", s.current, current)
    /\ stack' = s.stack
    /\ result' = s.result
    /\ UNCHANGED lxvars

Now == IF cc_mode = "scan" THEN ScannerNow ELSE ParserNow
Resume(s) == IF cc_mode = "scan" THEN ResumeScanner(s) ELSE ResumeParser(s)
NewInstance(i) ==
    IF cc_mode = "scan" THEN MythicScanner_new(cc_inputs[i]) ELSE Parser_new(cc_inputs[i])

\* the running instance has returned, and what it returned
Finished == IF cc_mode = "scan" THEN lx_pc = "done" ELSE result # None
Returned == IF cc_mode = "scan" THEN lx_result ELSE result

\* the same of the instance that is not running
OtherFinished == IF cc_mode = "scan" THEN cc_other.pc = "done" ELSE cc_other.result # None
OtherReturned == cc_other.result

\* the pairs of two different inputs
DifferentPairs(S) == { p \in S \X S : p[1] # p[2] }

ConcInit ==
    /\ overflow_checks \in BOOLEAN
    /\ cc_mode \in { "scan", "parse" }
    /\ cc_inputs \in IF cc_mode = "scan" THEN DifferentPairs(ConcSources)
                     ELSE DifferentPairs(ConcLines)
    /\ cc_phase = "alone"
    /\ cc_active = 1
    /\ cc_other = None
    /\ cc_alone = << >>
    /\ IF cc_mode = "scan"
       THEN /\ lx_source = cc_inputs[1]
            /\ lx_tokens = << >>
            /\ lx_start = 0
            /\ lx_current = 0
            /\ lx_line = 1
            /\ lx_c = None
            /\ lx_pc = "scan_tokens"
            /\ lx_result = None
            /\ tokens = << >>
            /\ source = << >>
            /\ current = 0
            /\ stack = << >>
            /\ result = [tag |-> "Idle"]
       ELSE /\ tokens = ScanOf(cc_inputs[1])
            /\ source = SourceOf(cc_inputs[1])
            /\ current = 0
            /\ stack = << >>
            /\ result = None
            /\ LexIdle
    /\ PosIdle
    /\ RangeIdle
    /\ DiagIdle
    /\ SkipIdle

\* an instance that ran by itself has returned: its result is kept, and
\* the second instance runs by itself, or both start again together
RunNext ==
    /\ cc_phase = "alone"
    /\ Finished
    /\ cc_alone' = Append(cc_alone, Returned)
    /\ IF cc_alone = << >>
       THEN /\ Resume(NewInstance(2))
            /\ cc_active' = 2
            /\ UNCHANGED <<cc_phase, cc_other>>
       ELSE /\ Resume(NewInstance(1))
            /\ cc_active' = 1
            /\ cc_other' = NewInstance(2)
            /\ cc_phase' = "both"
    /\ UNCHANGED <<overflow_checks, cc_mode, cc_inputs, pmvars, rgvars, dgvars, skvars>>

\* the scheduler takes the running instance off and puts the other on
Switch ==
    /\ cc_phase = "both"
    /\ Resume(cc_other)
    /\ cc_other' = Now
    /\ cc_active' = 3 - cc_active
    /\ UNCHANGED <<overflow_checks, cc_mode, cc_phase, cc_inputs, cc_alone, pmvars,
                   rgvars, dgvars, skvars>>

ConcNext ==
    \/ ScanNext
    \/ Next
    \/ RunNext
    \/ Switch

ConcSpec == ConcInit /\ [][ConcNext]_vars

\* ================================================================ claims
\* the token types of the input, Eof included
TypesOf(toks) == [i \in 1..Len(toks) |-> toks[i].type_]

\* the types of the n tokens that end just before the cursor c
TypesBefore(c, n) == [i \in 1..n |-> tokens[c - n + i].type_]

\* C1: parse terminates on every token sequence that ends with Eof
C1_ParseTerminates == <>(result # None)

\* the input is a mechanic name and nothing else: no token of it ends the
\* name or opens a bracket
LoneMechanic ==
    /\ Len(tokens) >= 2
    /\ \A i \in 1..(Len(tokens) - 1) :
          tokens[i].type_ \notin {"Space", "LeftBrace", "LeftSquareBracket"}

LoneMechanicLine ==
    SkillLine(GenericNameAndMlc(GenericString(SubSeq(tokens, 1, Len(tokens) - 1)), None),
              None, None, << >>, None, None)

\* C2: a lone mechanic name parses to a SkillLine whose mechanic name is
\* all the tokens of the input and whose optional parts are all absent
C2_LoneMechanic == (LoneMechanic /\ result # None) => result = Ok(LoneMechanicLine)

C2_Witness == LoneMechanic /\ TypesOf(tokens) = << "Identifier", "Eof" >>
                 /\ result = Ok(LoneMechanicLine)

\* C3: the line with every modifier parses, with one MLC entry on the
\* mechanic and on the targeter, a trigger without argument, one
\* condition, a chance and the health modifier `>` Absolute(10)
C3_FullLineParses ==
    (TypesOf(tokens) = FullLine \o << "Eof" >>) ~>
        /\ TypesOf(tokens) = FullLine \o << "Eof" >>
        /\ result # None
        /\ result.tag = "Ok"
        /\ Len(result.v.mechanic.mlc.v.mlcs) = 1
        /\ Len(result.v.targeter.v.mlc.v.mlcs) = 1
        /\ result.v.trigger.v.arg = None
        /\ Len(result.v.conditions) = 1
        /\ result.v.chance # None
        /\ result.v.health_modifier.v.operator.type_ = "GreaterThan"
        /\ result.v.health_modifier.v.value = Value(Absolute(tokens[26]))

\* the range of a targeter: from the start of its `@` to the end of its
\* last token
FirstTargeterRange(t) ==
    LET s == from_offset(t.at.start, source)
        e == from_offset(IF t.mlc = None THEN t.name.current
                         ELSE t.mlc.v.right_brace.current, source)
    IN  IF s.panic \/ e.panic THEN RangePanic
        ELSE RangeOk(CustomRange(s.pos, e.pos))

\* the modifier loop is about to read an `@` with a targeter already parsed
SecondTargeterAhead ==
    /\ Running("skill_line")
    /\ Top.pc = "modifier"
    /\ Top.targeter # None
    /\ check(current, "At")

\* C4: a second `@` makes parse return the TargeterAlreadyDefinedError,
\* whose range is the range of the first targeter
C4_SecondTargeter ==
    [][SecondTargeterAhead =>
          /\ result'.tag = "Err"
          /\ result'.code_number = 1
          /\ ~FirstTargeterRange(Top.targeter.v).panic
          /\ result'.range = FirstTargeterRange(Top.targeter.v).range]_vars

\* the modifier loop is about to read a `~` with a trigger already parsed
SecondTriggerAhead ==
    /\ Running("skill_line")
    /\ Top.pc = "modifier"
    /\ Top.trigger # None
    /\ check(current, "Tilde")

\* C5: a second `~` makes parse return the TriggerAlreadyDefinedError,
\* with or without a targeter in the line
C5_SecondTrigger ==
    [][SecondTriggerAhead => (result'.tag = "Err" /\ result'.code_number = 2)]_vars

\* C6: `fireball{power=<caster.name>}` parses to one MLC entry whose value
\* is an empty literal run, the placeholder caster.name, an empty literal run
C6_PlaceholderParses ==
    (TypesOf(tokens) = PlaceholderLine \o << "Eof" >>) ~>
        /\ TypesOf(tokens) = PlaceholderLine \o << "Eof" >>
        /\ result # None
        /\ result.tag = "Ok"
        /\ Len(result.v.mechanic.mlc.v.mlcs) = 1
        /\ LET parts == result.v.mechanic.mlc.v.mlcs[1].value.identifiers IN
           /\ Len(parts) = 3
           /\ parts[1] = Identifiers(<< >>)
           /\ parts[2].tag = "Placeholder"
           /\ Len(parts[2].identifiers) = 2
           /\ parts[2].identifiers[1].name = GenericString(<< tokens[6] >>)
           /\ parts[2].identifiers[2].name = GenericString(<< tokens[8] >>)
           /\ parts[2].dots = << tokens[7] >>
           /\ parts[3] = Identifiers(<< >>)

\* the four tokens before the cursor are `=` Number `-` Number, read by
\* the health_modifier that has just returned to the modifier loop
HealthRangeRead ==
    /\ Running("skill_line")
    /\ Top.pc = "health_modifier"
    /\ current >= 4
    /\ TypesBefore(current, 4) = << "Equal", "Number", "Dash", "Number" >>
    /\ peek(current).type_ # "Percent"

\* the line `name =N-N`
HealthRangeLine == TypesOf(tokens) = << "Identifier", "Space", "Equal", "Number", "Dash",
                                       "Number", "Eof" >>

\* C7: `=` Number `-` Number is a HealthModifier with operator `=` and the
\* value Range(Absolute(first), Absolute(second)), and the line `name =N-N`
\* parses to the skill line with that health modifier
C7_HealthRange ==
    /\ HealthRangeRead =>
          Top.ret = HealthModifier(tokens[current - 3],
                        Range(Absolute(tokens[current - 2]), Absolute(tokens[current])))
    /\ (HealthRangeLine /\ result # None) =>
          result = Ok(SkillLine(GenericNameAndMlc(GenericString(<< tokens[1] >>), None),
                        None, None, << >>, None,
                        Some(HealthModifier(tokens[3],
                                Range(Absolute(tokens[4]), Absolute(tokens[6]))))))

C7_Witness ==
    /\ HealthRangeLine
    /\ result # None
    /\ result.tag = "Ok"
    /\ result.v.health_modifier.v.value.tag = "Range"

\* the line `name >N-N` or `name <N-N`
IllegalRangeLine ==
    \E op \in {"GreaterThan", "LessThan"} :
        TypesOf(tokens) = << "Identifier", "Space", op, "Number", "Dash", "Number", "Eof" >>

\* C8: a range after `>` or `<` makes parse return an Error
C8_IllegalRangeFails == IllegalRangeLine ~> (result # None /\ result.tag = "Err")

\* ----------------------------------------------------- position claims
\* the offset is within the source, its end included
InRange == pm_pc # "idle" /\ pm_offset <= Len(pm_source)

\* C9: from_offset(to_offset(from_offset(o, s), s), s) = from_offset(o, s)
\* for every offset o of s
C9_RoundTripStable ==
    InRange => /\ pm_pc # "panic"
               /\ pm_pc = "done" => pm_again.pos = pm_pos.pos

\* C10: to_offset(from_offset(o, s), s) = o for every offset o of s, and
\* offset 0 is the position (0, 0)
C10_ExactInverses ==
    InRange => /\ ~(pm_pos # None /\ pm_pos.panic)
               /\ ~(pm_back # None /\ pm_back.panic)
               /\ (pm_back # None /\ ~pm_back.panic) => pm_back.off = pm_offset
               /\ (pm_offset = 0 /\ pm_pos # None) => pm_pos = PosOk(CustomPosition(0, 0))

\* C11: for every source and every offset, past the end included,
\* from_offset returns a position and does not panic; the subtraction
\* `offset -= line length + 1` does not underflow, so the character is at
\* most the offset given, and the line is at most the number of lines
C11_NoUnderflow ==
    (pm_pc # "idle" /\ pm_pos # None) =>
        /\ ~pm_pos.panic
        /\ ~U32Lt(pm_offset, pm_pos.pos.character)
        /\ pm_pos.pos.line <= Len(Lines(pm_source))

\* ------------------------------------------------------- range claims
\* a is before b in the order of positions: by line, then by character
PosBefore(a, b) ==
    \/ U32Lt(a.line, b.line)
    \/ a.line = b.line /\ U32Lt(a.character, b.character)

\* C12: contains(p) is true exactly when start < p < end in the order of
\* positions; it is false for p = start and for p = end
C12_ContainsOpen ==
    rg_contains # None =>
        /\ rg_contains.v = (PosBefore(rg_range.start, rg_position)
                              /\ PosBefore(rg_position, rg_range.end))
        /\ rg_position = rg_range.start => rg_contains.v = FALSE
        /\ rg_position = rg_range.end => rg_contains.v = FALSE

\* contains was called with a position strictly inside the range, on the
\* line of its start, and answered true
C12_Witness ==
    /\ rg_contains = Some(TRUE)
    /\ rg_position.line = rg_range.start.line
    /\ rg_position # rg_range.start

ScanOk == lx_result # None /\ lx_result.tag = "Ok"

\* C14: a successful scan returns tokens whose last is Eof and which hold
\* no other Eof; the scan of the empty source returns Eof alone, no error
C14_EofLast ==
    /\ ScanOk =>
          LET toks == lx_result.v IN
          /\ Len(toks) >= 1
          /\ toks[Len(toks)].type_ = "Eof"
          /\ \A i \in 1..(Len(toks) - 1) : toks[i].type_ # "Eof"
    /\ (lx_pc = "done" /\ lx_source = << >>) =>
          /\ ScanOk
          /\ Len(lx_result.v) = 1

\* a source with a string and a brace was scanned to three tokens
C14_Witness ==
    /\ ScanOk
    /\ Len(lx_result.v) = 3
    /\ lx_result.v[1].type_ = "String"

\* C15: on a successful scan the Eof token is zero-width at the end of
\* the source: start = current = length of the source
C15_EofAtEnd ==
    ScanOk =>
        LET eof == lx_result.v[Len(lx_result.v)] IN
        /\ eof.start = Len(lx_source)
        /\ eof.current = Len(lx_source)

\* every character of the source is a digit, a letter, an underscore, a
\* dot, a space or a brace
RunsOnly ==
    \A i \in 1..Len(lx_source) :
        \/ is_alphanumeric(lx_source[i])
        \/ lx_source[i] \in { "_", ".", " ", "{" }

\* the lexemes of the tokens, one after the other
RECURSIVE LexemesOf(_)
LexemesOf(toks) ==
    IF toks = << >> THEN << >>
    ELSE (IF Head(toks).lexeme = None THEN << >> ELSE Head(toks).lexeme.v)
            \o LexemesOf(Tail(toks))

\* C16: a source of digit runs, identifier runs and structural characters
\* scans successfully; each run is one Number or one Identifier token, so
\* the lexemes make up the source and no run is split in two tokens
C16_RunsScan ==
    (lx_pc = "done" /\ RunsOnly) =>
        /\ ScanOk
        /\ LexemesOf(lx_result.v) = lx_source
        /\ \A i \in 1..(Len(lx_result.v) - 1) :
              ~(lx_result.v[i].type_ = "Identifier" /\ lx_result.v[i + 1].type_ = "Identifier")

\* string is running and the quote that opened it does not come again
Unterminated ==
    /\ lx_pc = "string"
    /\ \A i \in (lx_current + 1)..Len(lx_source) : lx_source[i] # lx_c

\* C17: scanning an opened string that the source never closes returns the
\* SyntaxError "Unterminated string." over the range from the opening
\* quote to the end of the source; the scanner does not panic
C17_UnterminatedIsError ==
    [][Unterminated =>
         /\ lx_result'.tag = "Err"
         /\ lx_result'.message = "Unterminated string."
         /\ lx_result'.range.start = from_offset(lx_start, lx_source).pos
      ]_<<overflow_checks, pmvars, pvars, lxvars, rgvars, dgvars, ccvars, skvars>>

\* string is running and the quote that opened it comes again at index i
ClosedAt(i) ==
    /\ lx_pc = "string"
    /\ i \in (lx_current + 1)..Len(lx_source)
    /\ lx_source[i] = lx_c
    /\ \A j \in (lx_current + 1)..(i - 1) : lx_source[j] # lx_c

\* C18: a string whose closing quote is in the source becomes one String
\* token whose literal is the text between the quotes, also when the
\* closing quote is the last character; scan_tokens does not return
C18_ClosedIsString ==
    [][\A i \in 1..Len(lx_source) :
          ClosedAt(i) =>
             /\ lx_result' = None
             /\ lx_tokens' # << >>
             /\ lx_tokens'[Len(lx_tokens')].type_ = "String"
             /\ lx_tokens'[Len(lx_tokens')].literal
                    = Some(SubSeq(lx_source, lx_current + 1, i - 1))
      ]_<<overflow_checks, pmvars, pvars, lxvars, rgvars, dgvars, ccvars, skvars>>

\* no rule of scan_token is for c: not a structural character, a space, a
\* line terminator, a quote, a digit, a letter or an underscore
NoRule(c) ==
    /\ c \notin Structural \cup { CR, NL, DoubleQuote, SingleQuote, "_" }
    /\ ~is_alphanumeric(c)

\* C19: at the first character no rule matches, a tab or a `#` for one,
\* the scan returns the SyntaxError "Unexpected character: c"
C19_UnexpectedCharacter ==
    [][(lx_pc = "scan_token" /\ NoRule(lx_source[lx_current + 1])) =>
         /\ lx_result'.tag = "Err"
         /\ lx_result'.message = "Unexpected character: " \o lx_source[lx_current + 1]
      ]_<<overflow_checks, pmvars, pvars, lxvars, rgvars, dgvars, ccvars, skvars>>

\* ---------------------------------------------------- diagnostic claims
\* the code strings of the declared error kinds
DeclaredCodes ==
    { "0: syntax_error", "1: targeter_already_defined_error",
      "2: trigger_already_defined_error",
      "3: invalid_configuration_file_structure_error" }

\* the decimal text of the code numbers of the errors built directly
CodeNumberText(n) ==
    CASE n = -12 -> "-12" [] n = -1 -> "-1" [] n = 7 -> "7" [] n = 10 -> "10"
      [] n = 123 -> "123" [] n = 0 -> "0" [] n = 1 -> "1" [] n = 2 -> "2" [] n = 3 -> "3"

\* C20: to_diagnostic gives the error's range, the error's severity (Error
\* for every declared kind), the code "<code_number>: <code>", the source
\* "Mythic Language Server" and the error's message unchanged
C20_Diagnostic ==
    dg_diagnostic # None =>
        LET d == dg_diagnostic.v
            e == dg_error
        IN  /\ d.range.start.line = e.range.start.line
            /\ d.range.start.character = e.range.start.character
            /\ d.range.end.line = e.range.end.line
            /\ d.range.end.character = e.range.end.character
            /\ d.severity = Some(e.severity)
            /\ e.code # "c" => (d.severity = Some("ERROR") /\ d.code.v.v \in DeclaredCodes)
            /\ d.code = Some(NumberOrString_String(CodeNumberText(e.code_number) \o ": " \o e.code))
            /\ d.source = Some("Mythic Language Server")
            /\ d.message = e.message

\* an InvalidConfigurationFileStructureError over a range of two lines was
\* converted
C20_Witness ==
    /\ dg_diagnostic # None
    /\ dg_error.code_number = 3
    /\ dg_error.range.start.line < dg_error.range.end.line

\* ------------------------------------------------ parser claims, continued
\* the index in tokens of the token tok
IndexOf(tok) == CHOOSE i \in 1..Len(tokens) : tokens[i] = tok

\* the entry e of a mechanic line config has a value that opens an
\* inline-skill list: `[` and `-` follow its `=`
InlineSkillValue(e) ==
    LET k == IndexOf(e.equals) IN
    /\ k + 2 <= Len(tokens)
    /\ tokens[k + 1].type_ = "LeftSquareBracket"
    /\ tokens[k + 2].type_ = "Dash"

\* the `-` tokens between the `[` after the `=` of entry e and the next `]`
DashesOf(e) ==
    LET k == IndexOf(e.equals)
        close == CHOOSE j \in (k + 1)..Len(tokens) :
                    /\ tokens[j].type_ \in { "RightSquareBracket", "Eof" }
                    /\ \A i \in (k + 1)..(j - 1) : tokens[i].type_ # "RightSquareBracket"
    IN  { i \in (k + 1)..close : tokens[i].type_ = "Dash" }

\* C22: an entry whose value is an inline-skill list `[- s1 - s2 ...]` is
\* parsed into an InlineSkill value with one nested skill line per `-`
C22_InlineSkillValue ==
    \A i \in 1..Len(stack) :
        stack[i].fn = "mlc" =>
            \A j \in 1..Len(stack[i].mlcs) :
                LET e == stack[i].mlcs[j] IN
                InlineSkillValue(e) =>
                    /\ e.value.tag = "InlineSkill"
                    /\ Len(e.value.skills) = Cardinality(DashesOf(e))

\* consume_whitespace is the function running
InConsumeWhitespace == result = None /\ stack # << >> /\ Top.fn = "consume_whitespace"

\* C23: consume_whitespace always returns, whatever token is at the cursor
C23_ConsumeWhitespaceReturns == InConsumeWhitespace ~> ~InConsumeWhitespace

\* the token types a modifier starts with
ModifierStarts == { "At", "Tilde", "Question", "Percent", "LessThan", "GreaterThan", "Equal" }

\* the modifier loop, one Space skipped, is at a token that starts no
\* modifier and is no exit type
NoModifierAhead ==
    /\ result = None
    /\ stack # << >>
    /\ Top.fn = "skill_line"
    /\ Top.pc = "modifier"
    /\ ~is_at_end(current)
    /\ peek(current).type_ \notin ModifierStarts \cup Top.exit_types

\* C25: at a token that is neither Eof, a modifier start nor an exit type
\* parse returns the SyntaxError "Expected a valid skill line modifier"
\* whose range is that of the token, from its start to its end on line 0
C25_NoModifierIsError ==
    [][NoModifierAhead =>
         /\ result'.tag = "Err"
         /\ result'.code_number = 0
         /\ result'.message = "Expected a valid skill line modifier"
         /\ result'.range = CustomRange(CustomPosition(0, peek(current).start),
                                        CustomPosition(0, peek(current).current))
      ]_vars

\* the modifier loop, one Space skipped, is at a `%`
PercentAhead ==
    /\ result = None
    /\ stack # << >>
    /\ Top.fn = "skill_line"
    /\ Top.pc = "modifier"
    /\ check(current, "Percent")

\* C26: on a `%` the modifier loop sets the chance to a Chance holding that
\* `%` token and moves the cursor one token on, whatever follows the `%`
C26_ChanceIsPercentToken ==
    [][PercentAhead =>
         /\ current' = current + 1
         /\ stack' # << >>
         /\ stack'[Len(stack')].fn = "skill_line"
         /\ stack'[Len(stack')].chance = Some([tag |-> "Chance", token |-> peek(current)])
      ]_vars

\* the chance was set from a `%` and the cursor is on the Number after it
C26_Witness ==
    /\ stack # << >>
    /\ Top.fn = "skill_line"
    /\ Top.pc = "loop"
    /\ Top.chance # None
    /\ current > 0
    /\ previous(current) = Top.chance.v.token
    /\ peek(current).type_ = "Number"

\* health_modifier is about to read the second bound of a range, and the
\* tokens at the cursor are a Number and a `%`
SecondBoundPercent ==
    /\ result = None
    /\ stack # << >>
    /\ Top.fn = "health_modifier"
    /\ Top.pc = "max"
    /\ current + 2 <= Len(tokens)
    /\ tokens[current + 1].type_ = "Number"
    /\ tokens[current + 2].type_ = "Percent"

\* C27: a Number followed by `%` as the second bound of a range yields
\* Percentage(that Number, that `%`) and the cursor moves past the `%`
C27_SecondBoundPercentage ==
    [][SecondBoundPercent =>
         /\ current' = current + 2
         /\ stack' # << >>
         /\ stack'[Len(stack')].ret.value.max =
                Percentage(tokens[current + 1], tokens[current + 2])
      ]_vars

\* the line `name ~name:name`
TriggerArgLine == TypesOf(tokens) = Append(TriggerLine, "Eof")

\* the trigger of the line has been read into the skill line
TriggerRead ==
    /\ TriggerArgLine
    /\ stack # << >>
    /\ stack[1].fn = "skill_line"
    /\ stack[1].trigger # None

\* C28: the trigger of `~name:arg` has the tokens before the `:` as its
\* name, the `:` token as its colon and the generic string after it as arg
C28_TriggerColonArg ==
    TriggerRead =>
        stack[1].trigger.v = Trigger(tokens[3], GenericString(<< tokens[4] >>),
                                     Some(tokens[5]),
                                     Some(GenericString(<< tokens[6] >>)))

\* the line `name[[] ]`
NestedLine == TypesOf(tokens) = Append(NestedBracketLine, "Eof")

\* the mechanic name of the line has been read
NestedNameRead ==
    /\ NestedLine
    /\ stack # << >>
    /\ Top.fn = "generic_name_and_mlc"
    /\ Top.pc = "name"

\* C29: the Space between the outer `[` and its matching `]` does not end
\* the name: generic_string stops at Eof, having taken all six tokens
C29_MatchingCloser ==
    NestedNameRead => (current = 6 /\ Top.ret = GenericString(SubSeq(tokens, 1, 6)))

\* generic_string has left its loop: the cursor is on a terminator or Eof
GenericStringAtEnd ==
    /\ result = None
    /\ stack # << >>
    /\ Top.fn = "generic_string"
    /\ Top.pc = "loop"
    /\ (check_any(current, Top.end) \/ is_at_end(current))

\* C30: generic_string fails exactly when it took no token and was given
\* a message; the error is the SyntaxError with that message and the range
\* of the token at the cursor, from its start to its end on line 0;
\* otherwise it returns the tokens it took as a GenericString
C30_EmptyIsError ==
    [][GenericStringAtEnd =>
         IF current = Top.start /\ Top.error # None
         THEN /\ result'.tag = "Err"
              /\ result'.code_number = 0
              /\ result'.message = Top.error.v
              /\ result'.range = CustomRange(CustomPosition(0, peek(current).start),
                                             CustomPosition(0, peek(current).current))
         ELSE /\ result' = None
              /\ stack'[Len(stack')].ret = GenericString(TokenSlice(Top.start, current))
      ]_vars

\* the modifier loop, one Space skipped, is at a token of an exit type
\* that starts no modifier
ExitTypeAhead ==
    /\ result = None
    /\ stack # << >>
    /\ Top.fn = "skill_line"
    /\ Top.pc = "modifier"
    /\ ~is_at_end(current)
    /\ peek(current).type_ \in Top.exit_types \ ModifierStarts

C21_NoInterference ==
    cc_phase = "both" =>
        /\ Finished => Returned = cc_alone[cc_active]
        /\ OtherFinished => OtherReturned = cc_alone[3 - cc_active]

\* instance 1 has returned Ok while instance 2, taken off in the middle of
\* its run, has yet to return
C21_Witness ==
    /\ cc_phase = "both"
    /\ cc_active = 1
    /\ Finished
    /\ Returned.tag = "Ok"
    /\ Returned = cc_alone[1]
    /\ ~OtherFinished
    /\ cc_other.current > 0

\* ------------------------------------------------ parser claims, concluded
\* the line `name{ key=value}`
OneEntryLine == TypesOf(tokens) = Append(MlcEntryLine, "Eof")

\* C31: `{` k `=` v `}` with one entry is parsed to an MlcContainer with
\* that one entry and the cursor ends just past the `}`
C31_MlcEntries ==
    OneEntryLine ~>
        /\ result.tag = "Ok"
        /\ result.v.mechanic.mlc # None
        /\ Len(result.v.mechanic.mlc.v.mlcs) = 1
        /\ current = 7

\* the number of tokens of the type between the `?` and the name of the
\* inline condition c
PrefixCount(c, type_) ==
    Cardinality({ i \in (IndexOf(c.question_mark) + 1)..(IndexOf(c.name) - 1) :
                    tokens[i].type_ = type_ })

\* the inline conditions the skill line has read
ConditionsRead ==
    IF stack # << >> /\ stack[1].fn = "skill_line" THEN stack[1].conditions ELSE << >>

\* C32: no inline condition the parser accepts has more than one `!` or
\* more than one `~` between its `?` and its name
C32_PrefixSymbolsOnce ==
    \A i \in 1..Len(ConditionsRead) :
        /\ PrefixCount(ConditionsRead[i], "Exclamation") <= 1
        /\ PrefixCount(ConditionsRead[i], "Tilde") <= 1

\* C33: the exclamation field of an InlineCondition is set exactly when a
\* `!` stands in its prefix, and the tilde field exactly when a `~` does
C33_PrefixSymbolsRecorded ==
    \A i \in 1..Len(ConditionsRead) :
        LET c == ConditionsRead[i] IN
        /\ (c.exclamation_mark # None) = (PrefixCount(c, "Exclamation") >= 1)
        /\ (c.tilde # None) = (PrefixCount(c, "Tilde") >= 1)

\* C34: no step of the parser moves the cursor back, and none moves it
\* on by more than one token
C34_NoBacktracking == [][current' = current \/ current' = current + 1]_vars

\* parse has returned with the cursor on the Eof of a line of five tokens
\* or more
C34_Witness ==
    /\ result # None
    /\ result.tag = "Ok"
    /\ Len(tokens) >= 6
    /\ current = Len(tokens) - 1

\* the Targeter the skill line has read
TargeterRead ==
    IF stack # << >> /\ stack[1].fn = "skill_line" THEN stack[1].targeter ELSE None

\* C35: get_range of every Targeter the parser makes is defined; it starts
\* where the `@` starts and ends where the `}` of the mlc ends, or where
\* the name ends when there is no mlc
C35_TargeterRange ==
    TargeterRead # None =>
        LET t == TargeterRead.v
            r == TargeterGetRange(t)
            last == IF t.mlc # None THEN t.mlc.v.right_brace ELSE t.name
        IN  /\ ~r.panic
            /\ r.range = CustomRange(CustomPosition(0, t.at.start),
                                     CustomPosition(0, last.current))

\* the HealthModifier the skill line has read
HealthModifierRead ==
    IF stack # << >> /\ stack[1].fn = "skill_line" THEN stack[1].health_modifier ELSE None

\* C36: a HealthModifier whose value is a Range has the operator `=`
C36_RangeOnlyAfterEqual ==
    /\ HealthModifierRead # None =>
          (HealthModifierRead.v.value.tag = "Range"
              => HealthModifierRead.v.operator.type_ = "Equal")
    /\ \A i \in 1..Len(stack) :
          (stack[i].fn = "health_modifier" /\ stack[i].pc = "max")
              => stack[i].operator.type_ = "Equal"

\* a HealthModifier with `<` or `>` and a single value has been read, and
\* the cursor is on a `-` with a Number after it
C36_Witness ==
    /\ HealthModifierRead # None
    /\ HealthModifierRead.v.operator.type_ \in { "LessThan", "GreaterThan" }
    /\ HealthModifierRead.v.value.tag = "Value"
    /\ peek(current).type_ = "Dash"
    /\ tokens[current + 2].type_ = "Number"

\* the running function is about to call advance in a skip loop
AdvancesInSkip ==
    /\ result = None
    /\ stack # << >>
    /\ Top.fn \in { "generic_string", "mlc_value" }
    /\ Top.pc \in { "brace_body", "bracket_body" }

\* the running function is about to evaluate previous(): at the start of
\* targeter, trigger and inline_condition, at the top of the loop of mlc,
\* and at the end of the advance of the skip loops
CallsPrevious ==
    /\ result = None
    /\ stack # << >>
    /\ \/ Top.fn \in { "targeter", "trigger", "inline_condition" } /\ Top.pc = "start"
       \/ Top.fn = "mlc" /\ Top.pc = "loop"
       \/ AdvancesInSkip

\* the cursor previous() is evaluated with
CursorOfPrevious == IF AdvancesInSkip THEN advance(current) ELSE current

\* C38: the cursor stays within the tokens, on the Eof at most, and is at
\* least 1 wherever previous() is evaluated
C38_CursorInBounds ==
    /\ current \in 0..(Len(tokens) - 1)
    /\ CallsPrevious => CursorOfPrevious >= 1

\* a skip loop that finds no closer calls advance on the Eof
C38_Witness ==
    /\ AdvancesInSkip
    /\ current = Len(tokens) - 1

\* ------------------------------------------------ range claims, concluded
\* C39: for positions start <= end in the order of compare, whatever their
\* lines and characters, to_offset(start) <= to_offset(end), and the
\* subtraction of length does not underflow
C39_OffsetMonotone ==
    (rg_length # None /\ compare(rg_range.start, rg_range.end) # "Greater") =>
        /\ ~U32Lt(to_offset(rg_range.end, rg_source).off,
                  to_offset(rg_range.start, rg_source).off)
        /\ ~rg_length.v.panic
        /\ rg_length.v.off >= 0

\* ---------------------------------------------- scanner claims, concluded
\* C40: the cursor of the scanner never exceeds the length of the source,
\* and in the tokens of a successful scan every token but the Eof has
\* start < current and the lexeme source[start..current], and no token
\* starts before the one before it ends
C40_CursorAndSpans ==
    /\ lx_current <= Len(lx_source)
    /\ ScanOk =>
          LET toks == lx_result.v IN
          \A i \in 1..(Len(toks) - 1) :
              /\ toks[i].start < toks[i].current
              /\ toks[i].lexeme = Some(SubSeq(lx_source, toks[i].start + 1, toks[i].current))
              /\ i > 1 => toks[i - 1].current <= toks[i].start

\* ------------------------------------------------------------ two skips
\* C37: from the same opener on the same tokens the skip of generic_string
\* and the skip of mlc_value leave the cursor at the same index, and
\* either both end or neither does
C37_SkipsAgree == sk_phase = "done" => sk_outcomes[1] = sk_outcomes[2]

\* both skips ended past the closer of an opener that has another opener
\* of its kind right after it, with tokens left after the closer
C37_Witness ==
    /\ sk_phase = "done"
    /\ sk_outcomes[1].ended
    /\ sk_outcomes[2].ended
    /\ tokens[2].type_ = tokens[1].type_
    /\ sk_outcomes[2].current < Len(tokens) - 1

====
